---- MODULE Spec2Model ----
(***************************************************************************)
(* A model of centrifuge/client.py: the Client and Subscription state      *)
(* machines, the command registry, and the asyncio tasks that drive them.  *)
(*                                                                         *)
(* asyncio runs one task at a time; a task gives up control only at an     *)
(* await that really suspends. Every action below is one task running from *)
(* one suspension point to the next. The suspension points modelled are:   *)
(* websockets.connect, the transport close handshake, awaiting a reply     *)
(* future, awaiting the "done" barrier, Queue.get on an empty queue and    *)
(* conn.recv. Event handlers are the library's default handlers, which     *)
(* return without suspending.                                              *)
(*                                                                         *)
(* The operators that model methods are functions from a record of all     *)
(* the variables (a "world" w) to the record after the call, so that the   *)
(* calls of one handler compose in the order the code makes them.          *)
(***************************************************************************)
EXTENDS Integers, Sequences, FiniteSets, TLC

\* ------------------------------------------------------------------ bounds
MaxId == 3          \* command ids a run may allocate
MaxOpens == 1       \* transports a run may open
MaxProcs == 2       \* connection procedures (with their two loops) alive at once
MaxSubs == 2        \* Subscription objects a run may create
MaxSubTasks == 1    \* _subscribe tasks alive at once
MaxQueue == 1       \* frames waiting in the internal queue
MaxAttempts == 2    \* largest value of a reconnect or resubscribe attempts counter
MaxSched == 1       \* _schedule_reconnect tasks waiting to run
MaxOrphans == 1     \* armed timers of one kind that no field refers to
MaxPubs == 3        \* publications the server numbers in a run

Ids == 1..MaxId
\* The transports a run opens, and one more for a transport that an earlier
\* session of the client left behind.
Conns == 1..(MaxOpens + 1)
Old == MaxOpens + 1
Procs == 1..MaxProcs
Subs == 1..MaxSubs
\* The _subscribe tasks alive at once; the slot after the bounded ones is the
\* Spare, which only ProcReplyOver hands out.
Spare == MaxSubTasks + 1
STasks == 1..Spare
Chans == {"a"}

\* Codes of server disconnect pushes and of transport closes the server picks.
DiscCodes == {3001, 3500}
CloseCodes == {0, 1009, 3001, 3500}
\* Codes of server unsubscribe pushes.
UnsubCodes == {2000, 2500}

VARIABLES
    \* ---- Client fields
    state,              \* self.state
    need_reconnect,     \* self._need_reconnect
    id,                 \* self._id
    conn,               \* self._conn: a transport handle, 0 for None
    futures,            \* keys of self._futures
    cb_future,          \* per command id: the state of its _Callback.future
    cb_done,            \* per command id: the state of its _Callback.done
    cb_timeout,         \* command ids whose timeout timer is armed and whose future is pending
    connected_future,   \* self._connected_future
    messages,           \* self._messages: the frames of the current queue
    getters,            \* process loops blocked in get() on the current queue, in order
    reconnect_attempts, \* self._reconnect_attempts
    reconnect_timer,    \* self._reconnect_timer is armed
    reconnect_orphans,  \* armed reconnect timers no field refers to any more
    ping_timer,         \* self._ping_timer is armed
    token,              \* self._token: "" or a token
    get_token,          \* self._get_token is a provider (not None)
    refresh_timer,      \* self._refresh_timer is armed
    sched,              \* _schedule_reconnect tasks created by ensure_future, not yet run
    \* ---- Subscriptions
    subs,               \* self._subs: channel -> Subscription object, 0 for none
    sub,                \* the Subscription objects
    \* ---- transport and server
    tstate,             \* per transport handle: "none", "open", "closed"
    tcode,              \* per transport handle: close code (0: none)
    sent,               \* per command id: the handle it was sent on and what it asks
    replied,            \* per command id: what the server replied
    publications,       \* per command id: the offsets of the reply's "publications"
    offset,             \* the server's stream: the offset of its last numbered publication
    sent_token,         \* the command ids whose command carried a token
    ttl,                \* per command id: the "ttl" of the reply (0: no "expires")
    srv,                \* per transport handle: the server's side, "new", "session", "finished"
    \* ---- tasks
    proc,               \* connect()/_reconnect() tasks running _create_connection
    lis,                \* _listen tasks
    prc,                \* _process_messages tasks
    stask,              \* _subscribe tasks
    udisc,              \* the task of a user disconnect() call
    noping,             \* the _no_ping task
    uns,                \* the _unsubscribe call of a user unsubscribe() call
    uop,                \* the task of a user publish() call
    rdy,                \* the task of a user ready() call
    rfr,                \* the Client._refresh task
    srf,                \* the Client._sub_refresh task
    \* ---- observation
    issued,             \* the ids _next_command_id returned, in order
    emitted,            \* the handler calls of the last step, in order
    dispatched,         \* per command id: the process loop that handed its reply to
                        \* _future_success (0: none did)
    resolutions,        \* per command id: set_result/set_exception calls on its future
    delivered           \* the offset of the last publication handed to on_publication

vars == <<state, need_reconnect, id, conn, futures, cb_future, cb_done, cb_timeout,
          connected_future, messages, getters, reconnect_attempts, reconnect_timer,
          reconnect_orphans, ping_timer, sched, subs, sub, tstate, tcode, sent,
          replied, srv, proc, lis, prc, stask, udisc, noping, uns, uop, rdy,
          issued, emitted, dispatched, resolutions, publications, offset, delivered,
          token, get_token, refresh_timer, sent_token, ttl, rfr, srf>>

\* The variables as one record.
World ==
    [state |-> state, need_reconnect |-> need_reconnect, id |-> id, conn |-> conn,
     futures |-> futures, cb_future |-> cb_future, cb_done |-> cb_done,
     cb_timeout |-> cb_timeout, connected_future |-> connected_future,
     messages |-> messages, getters |-> getters,
     reconnect_attempts |-> reconnect_attempts, reconnect_timer |-> reconnect_timer,
     reconnect_orphans |-> reconnect_orphans, ping_timer |-> ping_timer,
     sched |-> sched, subs |-> subs, sub |-> sub, tstate |-> tstate, tcode |-> tcode,
     sent |-> sent, replied |-> replied, srv |-> srv, proc |-> proc,
     lis |-> lis, prc |-> prc, stask |-> stask, udisc |-> udisc, noping |-> noping, uns |-> uns,
     uop |-> uop, rdy |-> rdy, issued |-> issued, emitted |-> <<>>, dispatched |-> dispatched,
     resolutions |-> resolutions, publications |-> publications, offset |-> offset,
     delivered |-> delivered, token |-> token, get_token |-> get_token,
     refresh_timer |-> refresh_timer, sent_token |-> sent_token, ttl |-> ttl,
     rfr |-> rfr, srf |-> srf]

\* The counters of w are within the bounds.
Bounded(w) ==
    /\ w.sched <= MaxSched
    /\ w.reconnect_orphans <= MaxOrphans
    /\ w.reconnect_attempts <= MaxAttempts
    /\ \A s \in Subs : /\ w.sub[s].resubscribe_orphans <= MaxOrphans
                       /\ w.sub[s].resubscribe_attempts <= MaxAttempts

\* The next state is the record w.
Commit(w) ==
    /\ Bounded(w)
    /\ state' = w.state
    /\ need_reconnect' = w.need_reconnect
    /\ id' = w.id
    /\ conn' = w.conn
    /\ futures' = w.futures
    /\ cb_future' = w.cb_future
    /\ cb_done' = w.cb_done
    /\ cb_timeout' = w.cb_timeout
    /\ connected_future' = w.connected_future
    /\ messages' = w.messages
    /\ getters' = w.getters
    /\ reconnect_attempts' = w.reconnect_attempts
    /\ reconnect_timer' = w.reconnect_timer
    /\ reconnect_orphans' = w.reconnect_orphans
    /\ ping_timer' = w.ping_timer
    /\ sched' = w.sched
    /\ subs' = w.subs
    /\ sub' = w.sub
    /\ tstate' = w.tstate
    /\ tcode' = w.tcode
    /\ sent' = w.sent
    /\ replied' = w.replied
    /\ srv' = w.srv
    /\ proc' = w.proc
    /\ lis' = w.lis
    /\ prc' = w.prc
    /\ stask' = w.stask
    /\ udisc' = w.udisc
    /\ noping' = w.noping
    /\ uns' = w.uns
    /\ uop' = w.uop
    /\ rdy' = w.rdy
    /\ issued' = w.issued
    /\ emitted' = w.emitted
    /\ dispatched' = w.dispatched
    /\ resolutions' = w.resolutions
    /\ publications' = w.publications
    /\ offset' = w.offset
    /\ delivered' = w.delivered
    /\ token' = w.token
    /\ get_token' = w.get_token
    /\ refresh_timer' = w.refresh_timer
    /\ sent_token' = w.sent_token
    /\ ttl' = w.ttl
    /\ rfr' = w.rfr
    /\ srf' = w.srf

\* ------------------------------------------------------------------ values
\* A code: one of the library's named codes (tag) or a number the server sent.
Named(tag) == [tag |-> tag, n |-> 0]
Server(n) == [tag |-> "server", n |-> n]
NoCode == Named("")

\* A reply or push of a frame.
Item(t, k, ch, n, res) == [t |-> t, id |-> k, ch |-> ch, n |-> n, res |-> res]
ReplyItem(k, res) == Item("reply", k, "", 0, res)
\* A successful reply with "expires" and a "ttl" of n seconds.
ExpiresItem(k, n) == Item("reply", k, "", n, "ok")
PubItem(ch, o) == Item("pub", 0, ch, o, "")
DiscItem(n) == Item("disconnect", 0, "", n, "")
UnsubItem(ch, n) == Item("unsubscribe", 0, ch, n, "")
PingItem == Item("ping", 0, "", 0, "")

\* A handler call.
Event(e, code, ch) == [e |-> e, code |-> code, ch |-> ch]
Emit(w, ev) == [w EXCEPT !.emitted = Append(@, ev)]

\* A line of the trace that is not a handler call: a call that returned at once,
\* an exception a call raised, the entry of an internal method.
Mark(w, name) == Emit(w, Event(name, NoCode, ""))

\* Task records.
IdleProc == [pc |-> "idle", id |-> 0, err |-> "", code |-> NoCode, reconnect |-> FALSE]
IdleLis == [pc |-> "idle", conn |-> 0, code |-> NoCode, reconnect |-> FALSE]
IdlePrc == [pc |-> "idle", rest |-> <<>>, id |-> 0, code |-> NoCode, reconnect |-> FALSE]
IdleSTask == [pc |-> "idle", ch |-> "", s |-> 0, id |-> 0, code |-> 0]
IdleTask == [pc |-> "idle", id |-> 0, code |-> NoCode, reconnect |-> FALSE]
NoSub == [created |-> FALSE, client |-> FALSE, ch |-> "", state |-> "unsubscribed",
          subscribed_future |-> "pending", resubscribe_attempts |-> 0,
          resubscribe_timer |-> FALSE, resubscribe_orphans |-> 0,
          token |-> "", get_token |-> FALSE, refresh_timer |-> FALSE]
NotSent == [conn |-> 0, kind |-> "", ch |-> ""]

Min(a, b) == IF a < b THEN a ELSE b

\* ------------------------------------------------------------------ command registry
\* _next_command_id without the increment
next_command_id_same(w) == w

\* Client._next_command_id
next_command_id(w) == [w EXCEPT !.id = @ + 1]

\* cmd_id = self._next_command_id(), with the id recorded.
AllocId(w) ==
    LET w1 == next_command_id(w)
    IN  [w1 EXCEPT !.issued = Append(@, w1.id)]

\* Future.set_result / Future.set_exception on the reply future of command k: a
\* future that is already done keeps its value (asyncio raises InvalidStateError).
SetFuture(w, k, v) ==
    [w EXCEPT !.cb_future[k] = IF @ = "pending" THEN v ELSE @,
              !.resolutions[k] = Min(@ + 1, 2)]

\* done.set_result(True): a second call raises InvalidStateError.
SetDone(w, k) ==
    [w EXCEPT !.cb_done[k] = IF @ = "pending" THEN "set" ELSE "invalid"]

\* Client._register_future (the timeout is self._timeout, which is not zero)
register_future(w, k) ==
    [w EXCEPT !.futures = @ \cup {k},
              !.cb_future[k] = "pending",
              !.cb_done[k] = "none",
              !.cb_timeout = @ \cup {k}]

\* Client._register_future_with_done, up to the yield
register_future_with_done(w, k) ==
    [w EXCEPT !.futures = @ \cup {k},
              !.cb_future[k] = "pending",
              !.cb_done[k] = "pending",
              !.cb_timeout = @ \cup {k}]

\* _future_error without the del of the record
future_error_kept(w, k, exc) ==
    IF k \notin w.futures THEN w
    ELSE LET w1 == SetFuture(w, k, exc)
         IN  IF w1.cb_done[k] # "none" THEN SetDone(w1, k) ELSE w1

\* Client._future_error. It does not cancel the timer of the command; the cb() of
\* that timer finds the future done and does nothing, so the timer is not kept in
\* cb_timeout.
future_error(w, k, exc) ==
    IF k \notin w.futures THEN w
    ELSE LET w1 == SetFuture(w, k, exc)
             w2 == IF w1.cb_done[k] # "none" THEN SetDone(w1, k) ELSE w1
         IN  [w2 EXCEPT !.futures = @ \ {k}, !.cb_timeout = @ \ {k}]

\* _future_success without the lookup of the record in self._futures
future_success_unchecked(w, k) ==
    [SetFuture(w, k, "reply") EXCEPT !.futures = @ \ {k}, !.cb_timeout = @ \ {k}]

\* Client._future_success, up to the await of cb.done
future_success(w, k) ==
    IF k \notin w.futures THEN w
    ELSE LET w1 == SetFuture(w, k, "reply")
         IN  [w1 EXCEPT !.futures = @ \ {k}, !.cb_timeout = @ \ {k}]

\* _future_success without the await of cb.done
awaits_done_never(w, k) == FALSE

\* Client._future_success: whether it goes on to await cb.done ("if cb.done:"),
\* asked before the call.
awaits_done(w, k) == k \in w.futures /\ w.cb_done[k] # "none"

\* A cb() that leaves the future as it is
timeout_cb_idle(w, k) == w

\* The cb() of _register_future, run by the timer of command k.
timeout_cb(w, k) ==
    IF w.cb_future[k] = "pending" THEN future_error(w, k, "timeout") ELSE w

RECURSIVE ErrorAll(_, _, _)
ErrorAll(w, S, exc) ==
    IF S = {} THEN w
    ELSE LET k == CHOOSE x \in S : TRUE
         IN  ErrorAll(future_error(w, k, exc), S \ {k}, exc)

\* _clear_outgoing_futures that fails no command
clear_outgoing_futures_none(w) == w

\* Client._clear_outgoing_futures
clear_outgoing_futures(w) == ErrorAll(w, w.futures, "disconnected")

\* ------------------------------------------------------------------ transport
\* The transport h closes with a code: conn.open is false from now on and every
\* recv() pending on it raises ConnectionClosed.
CloseConn(w, h, code) ==
    [w EXCEPT !.tstate[h] = "closed",
              !.tcode[h] = code,
              !.lis = [p \in Procs |->
                         IF @[p].pc = "recv" /\ @[p].conn = h
                         THEN [@[p] EXCEPT !.pc = "exit"] ELSE @[p]]]

ConnOpen(w) == w.conn # 0 /\ w.tstate[w.conn] = "open"

\* Client._close_transport_conn: true when conn.close() has a handshake to wait for.
CloseSuspends(w) == ConnOpen(w)

\* Client._close_transport_conn, up to the end of the handshake
close_transport_conn(w) ==
    IF ConnOpen(w) THEN CloseConn(w, w.conn, 1000) ELSE w

\* ------------------------------------------------------------------ reconnect
\* Client._clear_connecting_state
clear_connecting_state(w) ==
    [w EXCEPT !.reconnect_attempts = 0, !.reconnect_timer = FALSE]

\* Client._schedule_reconnect
schedule_reconnect(w) ==
    IF w.state = "connected" THEN w
    ELSE IF ConnOpen(w) THEN w
    ELSE IF ~w.need_reconnect THEN w
    ELSE [w EXCEPT !.reconnect_attempts = @ + 1,
                   !.reconnect_orphans = IF w.reconnect_timer THEN @ + 1 ELSE @,
                   !.reconnect_timer = TRUE]

\* asyncio.ensure_future(self._schedule_reconnect())
SpawnScheduleReconnect(w) == [w EXCEPT !.sched = @ + 1]

\* ------------------------------------------------------------------ queue
\* await self._messages.put(None); self._messages = asyncio.Queue()
\* The process loops blocked in get() are served in order from the old queue's
\* frames and the sentinel: one that gets a frame handles it and then reads the new
\* queue, one that gets the sentinel stops, the others wait on the old queue for ever.
PoisonQueue(w) ==
    LET q == w.messages
        g == w.getters
        Pos(p) == CHOOSE i \in 1..Len(g) : g[i] = p
    IN  [w EXCEPT !.messages = <<>>,
                  !.getters = <<>>,
                  !.prc = [p \in Procs |->
                             IF \E i \in 1..Len(g) : g[i] = p
                             THEN IF Pos(p) <= Len(q)
                                  THEN [@[p] EXCEPT !.pc = "run", !.rest = q[Pos(p)]]
                                  ELSE IF Pos(p) = Len(q) + 1
                                  THEN IdlePrc
                                  ELSE [@[p] EXCEPT !.pc = "orphan"]
                             ELSE @[p]]]

\* ------------------------------------------------------------------ signals
\* The connected future is resolved with v: a ready() call waiting on it wakes.
ResolveConnected(w, v) ==
    [w EXCEPT !.connected_future = v,
              !.rdy = IF @.pc = "wait" THEN [pc |-> "done", res |-> v] ELSE @]

\* ------------------------------------------------------------------ Subscription
\* Subscription._clear_subscribing_state
clear_subscribing_state(w, s) ==
    [w EXCEPT !.sub[s].resubscribe_attempts = 0, !.sub[s].resubscribe_timer = FALSE]

\* Subscription._clear_subscribed_state
clear_subscribed_state(w, s) == [w EXCEPT !.sub[s].refresh_timer = FALSE]

\* Subscription._schedule_resubscribe
schedule_resubscribe(w, s) ==
    IF w.sub[s].state # "subscribing" THEN w
    ELSE [w EXCEPT !.sub[s].resubscribe_attempts = @ + 1,
                   !.sub[s].resubscribe_orphans =
                       IF w.sub[s].resubscribe_timer THEN @ + 1 ELSE @,
                   !.sub[s].resubscribe_timer = TRUE]

\* A free slot for a new _subscribe task.
FreeSTask(w) == {t \in 1..MaxSubTasks : w.stask[t].pc = "idle"}
LowestSTask(w) ==
    IF FreeSTask(w) = {} THEN Spare
    ELSE CHOOSE t \in FreeSTask(w) : \A u \in FreeSTask(w) : t <= u

\* asyncio.ensure_future(self._subscribe(channel))
SpawnSubscribe(w, ch) ==
    [w EXCEPT !.stask[LowestSTask(w)] = [IdleSTask EXCEPT !.pc = "start", !.ch = ch]]

\* asyncio.ensure_future(self._client.resubscribe(self))
SpawnResubscribe(w, s) ==
    [w EXCEPT !.stask[LowestSTask(w)] =
                  [IdleSTask EXCEPT !.pc = "resubscribe", !.ch = w.sub[s].ch, !.s = s]]

\* Client.resubscribe
resubscribe(w, s) ==
    SpawnSubscribe([w EXCEPT !.subs[w.sub[s].ch] = s], w.sub[s].ch)

\* Subscription.move_subscribing
move_subscribing(w, s, code, skip_schedule_resubscribe) ==
    IF w.sub[s].state = "subscribing" THEN w
    ELSE LET w0 == IF w.sub[s].state = "subscribed"
                   THEN clear_subscribed_state(w, s) ELSE w
             w1 == [w0 EXCEPT !.sub[s].state = "subscribing",
                              !.sub[s].subscribed_future = "pending"]
             w2 == Emit(w1, Event("on_subscribing", code, w.sub[s].ch))
         IN  IF skip_schedule_resubscribe THEN w2 ELSE SpawnResubscribe(w2, s)

\* The offset of a publication (0: it has none), as the code of a trace line.
Offset(o) == [tag |-> "offset", n |-> o]

\* await on_publication(PublicationContext(pub=Publication(offset=..., ...)))
on_publication(w, ch, o) ==
    [Emit(w, Event("on_publication", Offset(o), ch)) EXCEPT !.delivered = o]

\* Subscription._move_subscribed, lines 1409-1421: "for pub in publications"
RECURSIVE on_publications(_, _, _)
on_publications(w, ch, pubs) ==
    IF pubs = <<>> THEN w
    ELSE on_publications(on_publication(w, ch, Head(pubs)), ch, Tail(pubs))

\* _move_subscribed that hands over the publications before it calls on_subscribed
move_subscribed_publications_first(w, s, k) ==
    LET w1 == [w EXCEPT !.sub[s].state = "subscribed"]
    IN  IF w.sub[s].subscribed_future # "pending"
        THEN Emit(w1, Event("InvalidStateError", NoCode, w.sub[s].ch))
        ELSE clear_subscribing_state(
                 Emit(on_publications(
                          [w1 EXCEPT !.sub[s].subscribed_future = "ok",
                                     !.sub[s].refresh_timer = IF w.ttl[k] > 0 THEN TRUE ELSE @],
                          w.sub[s].ch, w.publications[k]),
                      Event("on_subscribed", NoCode, w.sub[s].ch)), s)

\* Subscription._move_subscribed with the reply of the subscribe command k:
\* set_result on a future that is already done raises InvalidStateError after
\* the state change, and the rest does not run.
move_subscribed(w, s, k) ==
    LET w1 == [w EXCEPT !.sub[s].state = "subscribed"]
    IN  IF w.sub[s].subscribed_future # "pending"
        THEN Emit(w1, Event("InvalidStateError", NoCode, w.sub[s].ch))
        ELSE clear_subscribing_state(
                 on_publications(
                     Emit([w1 EXCEPT !.sub[s].subscribed_future = "ok",
                                     !.sub[s].refresh_timer = IF w.ttl[k] > 0 THEN TRUE ELSE @],
                          Event("on_subscribed", NoCode, w.sub[s].ch)),
                     w.sub[s].ch, w.publications[k]), s)

\* Subscription._move_unsubscribed, up to the call of self._client._unsubscribe
move_unsubscribed(w, s, code) ==
    IF w.sub[s].state = "unsubscribed" THEN w
    ELSE LET w1 == IF w.sub[s].state = "subscribing"
                   THEN clear_subscribing_state(w, s)
                   ELSE clear_subscribed_state(w, s)
             w2 == [w1 EXCEPT !.sub[s].state = "unsubscribed",
                              !.sub[s].subscribed_future = "err"]
         IN  Emit(w2, Event("on_unsubscribed", code, w.sub[s].ch))

\* ------------------------------------------------------------------ _disconnect
\* Client._disconnect, lines 946-979: up to the close of the transport
disconnect_head(w, code, reconnect) ==
    LET w1 == [Emit(w, Event("_disconnect", code, ""))
                  EXCEPT !.ping_timer = FALSE, !.refresh_timer = FALSE]
        w2 == clear_connecting_state(w1)
        w3 == PoisonQueue(w2)
        w4 == IF reconnect THEN w3 ELSE [w3 EXCEPT !.need_reconnect = FALSE]
    IN  IF w4.state = "disconnected" THEN w4
        ELSE LET w5 == clear_outgoing_futures(w4)
                 w6 == [w5 EXCEPT !.connected_future = "pending"]
             IN  IF reconnect
                 THEN [w6 EXCEPT !.state = "connecting"]
                 ELSE [ResolveConnected(w6, "err") EXCEPT !.state = "disconnected"]

RECURSIVE MoveAllSubscribing(_, _, _)
MoveAllSubscribing(w, S, code) ==
    IF S = {} THEN w
    ELSE LET s == CHOOSE x \in S : TRUE
         IN  MoveAllSubscribing(
                 IF w.sub[s].state = "subscribed"
                 THEN move_subscribing(w, s, code, TRUE) ELSE w,
                 S \ {s}, code)

Registered(w) == {w.subs[ch] : ch \in Chans} \ {0}

\* Client._disconnect, lines 984-997: after the close of the transport
disconnect_tail(w, code, reconnect) ==
    LET w1 == MoveAllSubscribing(w, Registered(w), Named("TRANSPORT_CLOSED"))
        w2 == Emit(w1, Event("on_disconnected", code, ""))
    IN  IF reconnect THEN SpawnScheduleReconnect(w2) ELSE w2

\* Client._disconnect, run until it returns or suspends in the close handshake.
disconnect(w, code, reconnect) ==
    LET w1 == disconnect_head(w, code, reconnect)
    IN  IF w.state = "disconnected" THEN [w |-> w1, suspended |-> FALSE]
        ELSE IF CloseSuspends(w1)
        THEN [w |-> close_transport_conn(w1), suspended |-> TRUE]
        ELSE [w |-> disconnect_tail(w1, code, reconnect), suspended |-> FALSE]

\* ------------------------------------------------------------------ initial state
\* Client.__init__, called with a token provider (provider) or without one
InitWith(provider) ==
    /\ state = "disconnected"
    /\ need_reconnect = TRUE
    /\ id = 0
    /\ conn = 0
    /\ futures = {}
    /\ cb_future = [k \in Ids |-> "none"]
    /\ cb_done = [k \in Ids |-> "none"]
    /\ cb_timeout = {}
    /\ connected_future = "pending"
    /\ messages = <<>>
    /\ getters = <<>>
    /\ reconnect_attempts = 0
    /\ reconnect_timer = FALSE
    /\ reconnect_orphans = 0
    /\ ping_timer = FALSE
    /\ sched = 0
    /\ subs = [ch \in Chans |-> 0]
    /\ sub = [s \in Subs |-> NoSub]
    /\ tstate = [h \in Conns |-> "none"]
    /\ tcode = [h \in Conns |-> 0]
    /\ sent = [k \in Ids |-> NotSent]
    /\ replied = [k \in Ids |-> "no"]
    /\ srv = [h \in Conns |-> "new"]
    /\ proc = [p \in Procs |-> IdleProc]
    /\ lis = [p \in Procs |-> IdleLis]
    /\ prc = [p \in Procs |-> IdlePrc]
    /\ stask = [t \in STasks |-> IdleSTask]
    /\ udisc = IdleTask
    /\ noping = IdleTask
    /\ uns = IdleTask
    /\ uop = IdleTask
    /\ rdy = [pc |-> "idle", res |-> ""]
    /\ issued = <<>>
    /\ emitted = <<>>
    /\ dispatched = [k \in Ids |-> 0]
    /\ resolutions = [k \in Ids |-> 0]
    /\ publications = [k \in Ids |-> <<>>]
    /\ offset = 0
    /\ delivered = 0
    /\ token = ""
    /\ get_token = provider
    /\ refresh_timer = FALSE
    /\ sent_token = {}
    /\ ttl = [k \in Ids |-> 0]
    /\ rfr = IdleSTask
    /\ srf = IdleSTask

\* A client without a token and without a token provider
Init == InitWith(FALSE)

\* A client with a token provider
InitToken == InitWith(TRUE)

\* No process loop is in the middle of a frame: a loop that holds a frame runs on
\* without suspending, so no other task runs until it suspends.
Quiet == \A p \in Procs : prc[p].pc # "run"

FreeProcs == {p \in Procs : proc[p].pc = "idle" /\ lis[p].pc = "idle" /\ prc[p].pc = "idle"}
LowestProc == CHOOSE p \in FreeProcs : \A q \in FreeProcs : p <= q
FreeConns == {h \in Conns \ {Old} : tstate[h] = "none"}
LowestConn == CHOOSE h \in FreeConns : \A g \in FreeConns : h <= g

\* await self._send_commands([command]) on an open transport
Send(w, k, kind, ch) == [w EXCEPT !.sent[k] = [conn |-> w.conn, kind |-> kind, ch |-> ch]]

\* ... of a command that has a "token" field when tok is not empty
SendWith(w, k, kind, ch, tok) ==
    [Send(w, k, kind, ch) EXCEPT !.sent_token = IF tok # "" THEN @ \cup {k} ELSE @]

\* The error replies whose code _is_token_expired accepts, without and with the
\* "temporary" flag, and the error replies the code takes for temporary.
TokenExpired == {"expired", "expired_temp"}
Temporary == {"temp", "expired_temp"}

\* What a token provider does when it is awaited.
Outcomes == {"token", "unauthorized", "error"}

\* A provider's UnauthorizedError taken for any other exception
is_unauthorized_never(outcome) == FALSE

\* isinstance(e, UnauthorizedError) in the except branch of a token provider
is_unauthorized(outcome) == outcome = "unauthorized"

\* ------------------------------------------------------------------ connect()
\* Client._create_connection, lines 268-274: up to the await of websockets.connect
create_connection(w, p) ==
    IF w.state # "connecting" THEN w
    ELSE [w EXCEPT !.proc[p] = [IdleProc EXCEPT !.pc = "open"]]

\* Client.connect, when it is not a no-op
connect(w, p) ==
    LET w1 == [w EXCEPT !.state = "connecting", !.connected_future = "pending"]
        w2 == Emit(w1, Event("on_connecting", Named("CONNECT_CALLED"), ""))
    IN  create_connection(w2, p)

\* connect() without the check of the state
connect_never_noop(w) == FALSE

\* Client.connect: the states in which it returns at once
connect_is_noop(w) == w.state \in {"connecting", "connected"}

Connect ==
    /\ Quiet
    /\ IF connect_is_noop(World)
       THEN Commit(Mark(World, "connect_noop"))
       ELSE /\ FreeProcs # {}
            /\ Commit(connect(World, LowestProc))

\* Client._create_connection: websockets.connect raised OSError
OpenFail(p) ==
    /\ Quiet
    /\ proc[p].pc = "open"
    /\ LET w1 == Emit(World, Event("on_error", Named("TRANSPORT_CLOSED"), ""))
           w2 == SpawnScheduleReconnect(w1)
       IN  Commit([w2 EXCEPT !.proc[p] = IdleProc])

\* Client._create_connection, lines 305-320: from the check of the state that
\* follows the token to the await of the connect reply
create_connection_send(w, p) ==
    IF w.state # "connecting"
    THEN [w EXCEPT !.proc[p] = IdleProc]
    ELSE LET w2 == [w EXCEPT !.lis[p] = [IdleLis EXCEPT !.pc = "recv", !.conn = w.conn],
                             !.prc[p] = [IdlePrc EXCEPT !.pc = "get"],
                             !.getters = Append(@, p)]
             w3 == AllocId(w2)
             k == w3.id
             w4 == SendWith(register_future_with_done(w3, k), k, "connect", "", w.token)
         IN  [w4 EXCEPT !.proc[p].pc = "wait", !.proc[p].id = k]

\* Client._create_connection, lines 274-320: the transport is open; up to the
\* await of the token provider or of the connect reply
OpenOn(p, h) ==
    /\ Quiet
    /\ proc[p].pc = "open"
    /\ tstate[h] = "none"
    /\ id < MaxId
    /\ LET w1 == [World EXCEPT !.conn = h, !.tstate[h] = "open"]
       IN  IF token = "" /\ get_token
           THEN Commit([w1 EXCEPT !.proc[p].pc = "token"])
           ELSE Commit(create_connection_send(w1, p))

OpenOk(p) ==
    /\ FreeConns # {}
    /\ OpenOn(p, LowestConn)

\* Leaving the "async with" of _register_future_with_done: done.set_result(True)
ScopeExit(w, k) == SetDone(w, k)

\* _create_connection returns: the scope of its connect command is left.
\* A return before the connect command is registered leaves no scope.
ProcReturn(w, p) ==
    Commit([(IF w.proc[p].id = 0 THEN w ELSE ScopeExit(w, w.proc[p].id))
               EXCEPT !.proc[p] = IdleProc])

\* Client._create_connection, the end of its error branches: after
\* _close_transport_conn, on_error and _schedule_reconnect, which the branch of a
\* failed token provider starts as a task and the others await
ProcErrorTail(w, p, err) ==
    LET w1 == Emit(w, Event("on_error", Named(err), ""))
    IN  IF err = "CLIENT_CONNECT_TOKEN"
        THEN ProcReturn(SpawnScheduleReconnect(w1), p)
        ELSE ProcReturn(schedule_reconnect(w1), p)

\* ... and their start: await self._close_transport_conn()
ProcCloseThen(w, p, err) ==
    IF CloseSuspends(w)
    THEN Commit([close_transport_conn(w) EXCEPT !.proc[p].pc = "close", !.proc[p].err = err])
    ELSE ProcErrorTail(w, p, err)

\* The loop of lines 393-398 without the test of the state of the Subscription
SubscribingChans_registered(w) ==
    {ch \in Chans : w.subs[ch] # 0}

\* Client._create_connection, lines 393-398: the channels of the loop
SubscribingChans(w) ==
    {ch \in Chans : w.subs[ch] # 0 /\ w.sub[w.subs[ch]].state = "subscribing"}

RECURSIVE SpawnSubscribeAll(_, _)
SpawnSubscribeAll(w, S) ==
    IF S = {} THEN w
    ELSE LET ch == CHOOSE x \in S : TRUE
         IN  SpawnSubscribeAll(SpawnSubscribe(w, ch), S \ {ch})

\* The end of _create_connection without the set_result on the connected future
connect_success_silent(w, k) ==
    LET w1 == [w EXCEPT !.state = "connected", !.ping_timer = TRUE,
                        !.refresh_timer = IF w.ttl[k] > 0 THEN TRUE ELSE @]
        w2 == Emit(w1, Event("on_connected", NoCode, ""))
        w3 == clear_connecting_state(w2)
    IN  SpawnSubscribeAll(w3, SubscribingChans(w3))

\* Client._create_connection, lines 364-398: the connect reply has no error
connect_success(w, k) ==
    LET w1 == [w EXCEPT !.state = "connected", !.ping_timer = TRUE,
                        !.refresh_timer = IF w.ttl[k] > 0 THEN TRUE ELSE @]
    IN  IF w.connected_future # "pending"
        THEN Emit(w1, Event("InvalidStateError", NoCode, ""))
        ELSE LET w2 == ResolveConnected(w1, "ok")
                 w3 == Emit(w2, Event("on_connected", NoCode, ""))
                 w4 == clear_connecting_state(w3)
             IN  SpawnSubscribeAll(w4, SubscribingChans(w4))

\* Client._create_connection, lines 320-398: the connect reply future is resolved
ProcReplyWith(p, free) ==
    /\ Quiet
    /\ proc[p].pc = "wait"
    /\ cb_future[proc[p].id] # "pending"
    /\ Cardinality(free) >= Cardinality(SubscribingChans(World))
    /\ LET k == proc[p].id
           f == cb_future[k]
           w == World
       IN  CASE f = "timeout" -> ProcCloseThen(w, p, "TIMEOUT")
             [] f = "disconnected" ->
                  IF state # "connecting" THEN ProcReturn(w, p)
                  ELSE ProcCloseThen(w, p, "TRANSPORT_CLOSED")
             [] OTHER ->
                  IF state # "connecting" THEN ProcReturn(w, p)
                  ELSE CASE replied[k] \in TokenExpired ->
                              ProcCloseThen([w EXCEPT !.token = ""], p, "CONNECT_REPLY_ERROR")
                         [] replied[k] \in Temporary ->
                              ProcCloseThen(w, p, "CONNECT_REPLY_ERROR")
                         [] replied[k] = "fatal" ->
                              LET d == disconnect(w, Named("REPLY_ERROR"), FALSE)
                              IN  IF d.suspended
                                  THEN Commit([d.w EXCEPT !.proc[p].pc = "disc",
                                                          !.proc[p].code = Named("REPLY_ERROR")])
                                  ELSE ProcReturn(d.w, p)
                         [] OTHER -> ProcReturn(connect_success(w, k), p)

ProcReply(p) == ProcReplyWith(p, FreeSTask(World))

\* The same resumption while every bounded _subscribe task is still alive: the
\* task that lines 396-398 start for a SUBSCRIBING subscription takes the Spare.
ProcReplyOver(p) ==
    /\ FreeSTask(World) = {}
    /\ stask[Spare].pc = "idle"
    /\ ProcReplyWith(p, {Spare})

\* Client._create_connection, lines 286-303: the token provider returns a token,
\* raises UnauthorizedError or raises another exception
ProcToken(p, outcome) ==
    /\ Quiet
    /\ proc[p].pc = "token"
    /\ id < MaxId
    /\ CASE outcome = "token" ->
              Commit(create_connection_send([World EXCEPT !.token = "t"], p))
         [] is_unauthorized(outcome) ->
              LET d == disconnect(World, Named("UNAUTHORIZED"), FALSE)
              IN  IF d.suspended
                  THEN Commit([d.w EXCEPT !.proc[p].pc = "disc",
                                          !.proc[p].code = Named("UNAUTHORIZED")])
                  ELSE ProcReturn(d.w, p)
         [] OTHER -> ProcCloseThen(World, p, "CLIENT_CONNECT_TOKEN")

\* Client._create_connection: the close handshake of an error branch is over
ProcClosed(p) ==
    /\ Quiet
    /\ proc[p].pc = "close"
    /\ ProcErrorTail(World, p, proc[p].err)

\* Client._create_connection: the _disconnect of line 361 goes on after its close
ProcDisc(p) ==
    /\ Quiet
    /\ proc[p].pc = "disc"
    /\ ProcReturn(disconnect_tail(World, proc[p].code, FALSE), p)

\* ------------------------------------------------------------------ _refresh
\* The refresh timer fires: Client._refresh, lines 429-433, up to the await of
\* the token provider. Awaiting a provider that is None raises TypeError, which
\* the except branch reports.
RefreshTimer ==
    /\ Quiet
    /\ refresh_timer
    /\ rfr.pc = "idle"
    /\ id < MaxId
    /\ LET w1 == AllocId([World EXCEPT !.refresh_timer = FALSE])
       IN  IF get_token
           THEN Commit([w1 EXCEPT !.rfr = [IdleSTask EXCEPT !.pc = "token", !.id = w1.id]])
           ELSE Commit(Emit(w1, Event("on_error", Named("CLIENT_REFRESH_TOKEN"), "")))

\* Client._refresh, lines 433-453: the token provider returns a token, raises
\* UnauthorizedError or raises another exception
RefreshToken(outcome) ==
    /\ Quiet
    /\ rfr.pc = "token"
    /\ CASE outcome = "token" ->
              LET k == rfr.id
                  w1 == register_future([World EXCEPT !.token = "t"], k)
                  w2 == IF ConnOpen(w1) THEN SendWith(w1, k, "refresh", "", "t")
                        ELSE disconnect(w1, Named("TRANSPORT_CLOSED"), TRUE).w
              IN  Commit([w2 EXCEPT !.rfr.pc = "wait"])
         [] is_unauthorized(outcome) ->
              LET d == disconnect(World, Named("UNAUTHORIZED"), FALSE)
              IN  IF d.suspended
                  THEN Commit([d.w EXCEPT !.rfr.pc = "disc"])
                  ELSE Commit([d.w EXCEPT !.rfr = IdleSTask])
         [] OTHER ->
              Commit([Emit(World, Event("on_error", Named("CLIENT_REFRESH_TOKEN"), ""))
                         EXCEPT !.rfr = IdleSTask])

\* Client._refresh, line 437: its _disconnect goes on after the close
RefreshDisc ==
    /\ Quiet
    /\ rfr.pc = "disc"
    /\ Commit([disconnect_tail(World, Named("UNAUTHORIZED"), FALSE) EXCEPT !.rfr = IdleSTask])

\* Client._refresh, lines 455-482: the reply future is resolved
RefreshResume ==
    /\ Quiet
    /\ rfr.pc = "wait"
    /\ cb_future[rfr.id] # "pending"
    /\ LET k == rfr.id
           w == [World EXCEPT !.rfr = IdleSTask]
       IN  IF cb_future[k] # "reply" \/ replied[k] # "ok"
           THEN Commit(Emit(w, Event("on_error", Named("CLIENT_REFRESH_TOKEN"), "")))
           ELSE Commit([w EXCEPT !.refresh_timer = IF ttl[k] > 0 THEN TRUE ELSE @])

\* A reconnect timer fires: Client._reconnect
reconnect(w, p) == create_connection(w, p)

ReconnectTimer ==
    /\ Quiet
    /\ state = "connecting" => FreeProcs # {}
    /\ reconnect_timer
    /\ Commit(reconnect([World EXCEPT !.reconnect_timer = FALSE],
                        IF FreeProcs # {} THEN LowestProc ELSE 1))

\* A reconnect timer that self._reconnect_timer no longer refers to fires
OrphanReconnectTimer ==
    /\ Quiet
    /\ state = "connecting" => FreeProcs # {}
    /\ reconnect_orphans > 0
    /\ Commit(reconnect([World EXCEPT !.reconnect_orphans = @ - 1],
                        IF FreeProcs # {} THEN LowestProc ELSE 1))

\* A task made by ensure_future(self._schedule_reconnect()) runs
ScheduleReconnectTask ==
    /\ Quiet
    /\ sched > 0
    /\ Commit(schedule_reconnect([World EXCEPT !.sched = @ - 1]))

\* ------------------------------------------------------------------ _listen
\* Client._listen, lines 1151-1172: the code and the reconnect flag it picks from
\* the close code of the transport
listen_code(ws_code) ==
    IF ws_code < 3000
    THEN IF ws_code = 1009 THEN Named("MESSAGE_SIZE_LIMIT") ELSE Named("TRANSPORT_CLOSED")
    ELSE Server(ws_code)

listen_reconnect(ws_code) ==
    IF ws_code < 3000 THEN TRUE
    ELSE ~((3500 <= ws_code /\ ws_code < 4000) \/ (4500 <= ws_code /\ ws_code < 5000))

\* Client._listen, lines 1140-1145: a frame arrived on the transport the loop reads;
\* it is queued and the loop reads self._conn again. A second recv() on a transport
\* another loop already reads raises RuntimeError, which ends the task.
listen_recv(w, p, frame) ==
    LET w1 == [w EXCEPT !.messages = Append(@, frame)]
    IN  IF ~ConnOpen(w1) THEN [w1 EXCEPT !.lis[p].pc = "exit"]
        ELSE IF \E q \in Procs : q # p /\ w1.lis[q].pc = "recv" /\ w1.lis[q].conn = w1.conn
        THEN [w1 EXCEPT !.lis[p] = IdleLis]
        ELSE [w1 EXCEPT !.lis[p].conn = w1.conn]

\* Client._listen, lines 1149-1174: the loop is over
ListenExit(p) ==
    /\ Quiet
    /\ lis[p].pc = "exit"
    /\ LET ws_code == tcode[conn]
           d == disconnect(Emit(World, Event("connection closed", Server(ws_code), "")),
                           listen_code(ws_code), listen_reconnect(ws_code))
       IN  IF d.suspended
           THEN Commit([d.w EXCEPT !.lis[p].pc = "disc",
                                   !.lis[p].code = listen_code(ws_code),
                                   !.lis[p].reconnect = listen_reconnect(ws_code)])
           ELSE Commit([d.w EXCEPT !.lis[p] = IdleLis])

ListenDisc(p) ==
    /\ Quiet
    /\ lis[p].pc = "disc"
    /\ Commit([disconnect_tail(World, lis[p].code, lis[p].reconnect)
                  EXCEPT !.lis[p] = IdleLis])

\* ------------------------------------------------------------------ server
\* What the server may send next on transport h.
ServerItems(w, h) ==
    {it \in {ReplyItem(k, res) : k \in Ids, res \in {"ok", "temp", "fatal"}}
            \cup {ReplyItem(k, res) : k \in w.sent_token, res \in TokenExpired}
            \cup {ExpiresItem(k, 1) : k \in w.sent_token} :
        /\ w.sent[it.id].conn = h
        /\ w.replied[it.id] = "no"
        /\ w.srv[h] = IF w.sent[it.id].kind = "connect" THEN "new" ELSE "session"
        /\ w.sent[it.id].kind = "unsubscribe" => it.res = "ok"
        /\ w.sent[it.id].kind \in {"publish", "refresh", "sub_refresh"} =>
               it.res \in {"ok", "temp"}}
    \cup (IF w.srv[h] = "session"
          THEN {PubItem(ch, 0) : ch \in Chans} \cup {DiscItem(n) : n \in DiscCodes}
               \cup {UnsubItem(ch, n) : ch \in Chans, n \in UnsubCodes} \cup {PingItem}
          ELSE {})

\* The server's side after it sent the item.
ServerSent(w, h, it) ==
    CASE it.t = "reply" ->
           [w EXCEPT !.replied[it.id] = it.res,
                     !.ttl[it.id] = it.n,
                     !.srv[h] = IF w.sent[it.id].kind = "connect"
                                THEN (IF it.res = "ok" THEN "session" ELSE "finished")
                                ELSE @]
      [] it.t = "disconnect" -> [w EXCEPT !.srv[h] = "finished"]
      [] OTHER -> w

\* The server sends a frame on transport h, of one item or of a reply or an
\* unsubscribe push followed by a publication, and the _listen task reading h
\* queues it.
ServerSends(h, kinds) ==
    /\ Quiet
    /\ tstate[h] = "open"
    /\ Len(messages) < MaxQueue
    /\ \E p \in Procs :
         /\ lis[p].pc = "recv"
         /\ lis[p].conn = h
         /\ \E a \in {it \in ServerItems(World, h) : it.t \in kinds} :
              LET w1 == ServerSent(World, h, a)
              IN  \/ Commit(listen_recv(w1, p, <<a>>))
                  \/ /\ a.t \in {"reply", "unsubscribe"}
                     /\ w1.srv[h] = "session"
                     /\ \E ch \in Chans :
                          Commit(listen_recv(w1, p, <<a, PubItem(ch, 0)>>))

\* The server, on a channel with a history, sends a publication with the next
\* offset of its stream, or answers a subscribe command with a successful reply
\* that carries the next n publications, alone or followed in the same frame by
\* the publication after them.
ServerPublishes(h) ==
    /\ Quiet
    /\ tstate[h] = "open"
    /\ Len(messages) < MaxQueue
    /\ srv[h] = "session"
    /\ \E p \in Procs :
         /\ lis[p].pc = "recv"
         /\ lis[p].conn = h
         /\ \/ \E ch \in Chans :
                 /\ offset < MaxPubs
                 /\ Commit(listen_recv([World EXCEPT !.offset = @ + 1], p,
                                       <<PubItem(ch, offset + 1)>>))
            \/ \E k \in Ids, n \in 1..MaxPubs, more \in 0..1 :
                 /\ sent[k].conn = h
                 /\ sent[k].kind = "subscribe"
                 /\ replied[k] = "no"
                 /\ offset + n + more <= MaxPubs
                 /\ Commit(listen_recv(
                        [World EXCEPT !.replied[k] = "ok",
                                      !.publications[k] = [i \in 1..n |-> offset + i],
                                      !.offset = @ + n + more], p,
                        IF more = 0 THEN <<ReplyItem(k, "ok")>>
                        ELSE <<ReplyItem(k, "ok"),
                               PubItem(sent[k].ch, offset + n + 1)>>))

ServerSend(h) == ServerSends(h, {"reply", "pub", "disconnect", "unsubscribe", "ping"})

\* The transport h closes with a close code of the set, or with none (0).
ServerCloses(h, codes) ==
    /\ Quiet
    /\ tstate[h] = "open"
    /\ \E c \in codes :
         Commit([CloseConn(World, h, c) EXCEPT !.srv[h] = "finished"])

ServerClose(h) == ServerCloses(h, CloseCodes)

\* ------------------------------------------------------------------ _process_messages
\* Client._process_messages: the loop is at "await self._messages.get()"
NextMessage(w, p) ==
    IF w.prc[p].rest # <<>> THEN w
    ELSE IF w.messages # <<>>
    THEN [w EXCEPT !.prc[p].pc = "run", !.prc[p].rest = Head(w.messages),
                   !.messages = Tail(@)]
    ELSE [w EXCEPT !.prc[p].pc = "get", !.getters = Append(@, p)]

\* Client._process_messages: get() returns a frame to the loop that waited first
ProcessWake(p) ==
    /\ Quiet
    /\ prc[p].pc = "get"
    /\ getters # <<>> /\ Head(getters) = p
    /\ messages # <<>>
    /\ Commit([World EXCEPT !.prc[p].pc = "run", !.prc[p].rest = Head(messages),
                            !.messages = Tail(@), !.getters = Tail(@)])

\* Client._process_disconnect: the reconnect flag of a disconnect push
process_disconnect_reconnect(code) ==
    (3500 <= code /\ code < 4000) \/ (4500 <= code /\ code < 5000)

\* Client._process_publication
process_publication(w, ch, o) ==
    IF w.subs[ch] = 0 THEN w ELSE on_publication(w, ch, o)

\* _process_unsubscribe that takes every code for a recoverable one
process_unsubscribe_recoverable(w, ch, code) ==
    IF w.subs[ch] = 0 THEN w
    ELSE [w EXCEPT !.stask[LowestSTask(w)] =
                       [IdleSTask EXCEPT !.pc = "move_subscribing",
                                         !.ch = ch, !.s = w.subs[ch], !.code = code]]

\* Client._process_unsubscribe: the move is a task of its own (ensure_future)
process_unsubscribe(w, ch, code) ==
    IF w.subs[ch] = 0 THEN w
    ELSE [w EXCEPT !.stask[LowestSTask(w)] =
                       [IdleSTask EXCEPT !.pc = IF code < 2500 THEN "move_unsubscribed"
                                                 ELSE "move_subscribing",
                                         !.ch = ch, !.s = w.subs[ch], !.code = code]]

\* Client._restart_ping_wait
restart_ping_wait(w) == [w EXCEPT !.ping_timer = TRUE]

\* Client._handle_ping: the pong is sent (send_pong is set by the connect reply);
\* on a closed transport the send raises ConnectionClosed and _send_commands
\* disconnects.
handle_ping(w) ==
    restart_ping_wait(
        IF ConnOpen(w) THEN w
        ELSE disconnect(w, Named("TRANSPORT_CLOSED"), TRUE).w)

\* Client._process_reply for the first item of the frame the loop holds
ProcessItem(p) ==
    /\ prc[p].pc = "run"
    /\ prc[p].rest # <<>>
    /\ LET it == Head(prc[p].rest)
           w == [World EXCEPT !.prc[p].rest = Tail(@)]
       IN  CASE it.t = "reply" ->
                  LET w1 == [future_success(w, it.id) EXCEPT !.dispatched[it.id] = p]
                  IN  IF awaits_done(w, it.id)
                      THEN Commit([w1 EXCEPT !.prc[p].pc = "barrier", !.prc[p].id = it.id])
                      ELSE Commit(NextMessage(w1, p))
             [] it.t = "pub" -> Commit(NextMessage(process_publication(w, it.ch, it.n), p))
             [] it.t = "disconnect" ->
                  LET r == process_disconnect_reconnect(it.n)
                      d == disconnect(Emit(w, Event("disconnect push received",
                                                    Server(it.n), "")),
                                      Server(it.n), r)
                  IN  IF d.suspended
                      THEN Commit([d.w EXCEPT !.prc[p].pc = "disc",
                                              !.prc[p].code = Server(it.n),
                                              !.prc[p].reconnect = r])
                      ELSE Commit(NextMessage(d.w, p))
             [] it.t = "unsubscribe" ->
                  /\ FreeSTask(w) # {}
                  /\ Commit(NextMessage(process_unsubscribe(w, it.ch, it.n), p))
             [] OTHER -> Commit(NextMessage(handle_ping(w), p))

\* Client._future_success, line 749: cb.done is set, the loop goes on
ProcessBarrier(p) ==
    /\ Quiet
    /\ prc[p].pc = "barrier"
    /\ cb_done[prc[p].id] # "pending"
    /\ Commit(NextMessage([World EXCEPT !.prc[p].pc = "run", !.prc[p].id = 0], p))

\* Client._process_disconnect: its _disconnect goes on after the close
ProcessDisc(p) ==
    /\ Quiet
    /\ prc[p].pc = "disc"
    /\ Commit(NextMessage(
           [disconnect_tail(World, prc[p].code, prc[p].reconnect)
               EXCEPT !.prc[p].pc = "run", !.prc[p].code = NoCode,
                      !.prc[p].reconnect = FALSE], p))

\* ------------------------------------------------------------------ timers
\* The timeout timer of command k fires.
CommandTimeout(k) ==
    /\ Quiet
    /\ k \in cb_timeout
    /\ Commit(timeout_cb([World EXCEPT !.cb_timeout = @ \ {k}], k))

\* The ping timer fires: Client._no_ping
PingTimeout ==
    /\ Quiet
    /\ ping_timer
    /\ noping.pc = "idle"
    /\ LET d == disconnect([World EXCEPT !.ping_timer = FALSE],
                           Named("NO_PING"), TRUE)
       IN  IF d.suspended
           THEN Commit([d.w EXCEPT !.noping.pc = "disc"])
           ELSE Commit(d.w)

NoPingDisc ==
    /\ Quiet
    /\ noping.pc = "disc"
    /\ Commit([disconnect_tail(World, Named("NO_PING"), TRUE)
                  EXCEPT !.noping = IdleTask])

\* ------------------------------------------------------------------ disconnect()
\* Client.disconnect: the state in which it returns at once
disconnect_is_noop(w) == w.state = "disconnected"

Disconnect ==
    /\ Quiet
    /\ udisc.pc = "idle"
    /\ IF disconnect_is_noop(World)
       THEN Commit(Mark(World, "disconnect_noop"))
       ELSE LET d == disconnect(World,
                                Named("DISCONNECT_CALLED"), FALSE)
            IN  IF d.suspended
                THEN Commit([d.w EXCEPT !.udisc.pc = "disc"])
                ELSE Commit(d.w)

DisconnectDone ==
    /\ Quiet
    /\ udisc.pc = "disc"
    /\ Commit([disconnect_tail(World,
                               Named("DISCONNECT_CALLED"), FALSE)
                  EXCEPT !.udisc = IdleTask])

\* ------------------------------------------------------------------ subscriptions
FreeSubs == {s \in Subs : ~sub[s].created}
LowestSub == CHOOSE s \in FreeSubs : \A u \in FreeSubs : s <= u

\* new_subscription without the check for a duplicate
is_duplicate_never(w, ch) == FALSE

\* Client.new_subscription: the check for a duplicate
is_duplicate(w, ch) == w.subs[ch] # 0

\* Client.new_subscription, when it does not raise
new_subscription(w, ch, s, provider) ==
    [w EXCEPT !.sub[s] = [NoSub EXCEPT !.created = TRUE, !.client = TRUE, !.ch = ch,
                                       !.get_token = provider],
              !.subs[ch] = s]

\* new_subscription(channel, get_token=...) when provider, else new_subscription(channel)
NewSubscriptionWith(ch, provider) ==
    /\ Quiet
    /\ IF is_duplicate(World, ch)
       THEN Commit(Mark(World, "DuplicateSubscriptionError"))
       ELSE /\ FreeSubs # {}
            /\ Commit(new_subscription(World, ch, LowestSub, provider))

NewSubscription(ch) == NewSubscriptionWith(ch, FALSE)

\* remove_subscription without the check of the state
remove_subscription_unchecked(w, s) ==
    LET w1 == [w EXCEPT !.sub[s].client = FALSE]
    IN  IF w.subs[w.sub[s].ch] = 0 THEN Mark(w1, "KeyError")
        ELSE [w1 EXCEPT !.subs[w.sub[s].ch] = 0]

\* Client.remove_subscription
remove_subscription(w, s) ==
    IF w.sub[s].state # "unsubscribed" THEN Mark(w, "CentrifugeError")
    ELSE LET w1 == [w EXCEPT !.sub[s].client = FALSE]
         IN  IF w.subs[w.sub[s].ch] = 0 THEN Mark(w1, "KeyError")
             ELSE [w1 EXCEPT !.subs[w.sub[s].ch] = 0]

RemoveSubscription(s) ==
    /\ Quiet
    /\ sub[s].created
    /\ Commit(remove_subscription(World, s))

\* Subscription.subscribe
subscribe(w, s) ==
    IF w.sub[s].state = "subscribing" THEN Mark(w, "subscribe_noop")
    ELSE LET w1 == [w EXCEPT !.sub[s].state = "subscribing"]
             w2 == Emit(w1, Event("on_subscribing", Named("SUBSCRIBE_CALLED"), w.sub[s].ch))
         IN  IF ~w.sub[s].client THEN Mark(w2, "AttributeError")
             ELSE resubscribe(w2, s)

Subscribe(s) ==
    /\ Quiet
    /\ sub[s].created
    /\ FreeSTask(World) # {}
    /\ Commit(subscribe(World, s))

\* The except branches of _subscribe without _schedule_resubscribe
subscribe_failed_unscheduled(w, s, err) ==
    IF w.sub[s].state # "subscribing" THEN w
    ELSE Emit(w, Event("on_error", Named(err), w.sub[s].ch))

\* Client._subscribe, lines 604-626 and 636-645: the end of the two except
\* branches and of the branch of a temporary error
subscribe_failed(w, s, err) ==
    IF w.sub[s].state # "subscribing" THEN w
    ELSE schedule_resubscribe(Emit(w, Event("on_error", Named(err), w.sub[s].ch)), s)

\* Client._subscribe, lines 602-649: the reply future of command k is resolved
subscribe_resolved(w, s, k) ==
    CASE w.cb_future[k] = "timeout" -> subscribe_failed(w, s, "TIMEOUT")
      [] w.cb_future[k] = "disconnected" -> subscribe_failed(w, s, "TRANSPORT_CLOSED")
      [] OTHER ->
           IF w.sub[s].state # "subscribing" THEN w
           ELSE CASE w.replied[k] \in TokenExpired ->
                       subscribe_failed([w EXCEPT !.sub[s].token = ""], s,
                                        "SUBSCRIBE_REPLY_ERROR")
                  [] w.replied[k] \in Temporary ->
                       subscribe_failed(w, s, "SUBSCRIBE_REPLY_ERROR")
                  [] w.replied[k] = "fatal" -> move_unsubscribed(w, s, Named("REPLY_ERROR"))
                  [] OTHER -> move_subscribed(w, s, k)

\* Client._subscribe, lines 595-603: from _next_command_id to the await of the
\* reply. The send on a closed transport raises ConnectionClosed: _send_commands
\* disconnects, and the reply future is then already failed.
subscribe_send(w, t, s, ch) ==
    LET w1 == AllocId(w)
        k == w1.id
        w2 == register_future_with_done(w1, k)
    IN  IF ConnOpen(w2)
        THEN [SendWith(w2, k, "subscribe", ch, w.sub[s].token)
                 EXCEPT !.stask[t].pc = "wait", !.stask[t].s = s, !.stask[t].id = k]
        ELSE LET w3 == disconnect(w2, Named("TRANSPORT_CLOSED"), TRUE).w
             IN  [ScopeExit(subscribe_resolved(w3, s, k), k) EXCEPT !.stask[t] = IdleSTask]

\* Client._subscribe, lines 560-603: up to the await of the token provider or of
\* the reply
SubStart(t) ==
    /\ Quiet
    /\ stask[t].pc = "start"
    /\ id < MaxId
    /\ LET ch == stask[t].ch
           s == subs[ch]
           w == World
       IN  IF s = 0 \/ state # "connected"
           THEN Commit([w EXCEPT !.stask[t] = IdleSTask])
           ELSE IF sub[s].token = "" /\ sub[s].get_token
           THEN Commit([w EXCEPT !.stask[t].pc = "token", !.stask[t].s = s])
           ELSE Commit(subscribe_send(w, t, s, ch))

\* Client._subscribe, lines 574-593: the token provider returns a token, raises
\* UnauthorizedError or raises another exception; the code does not look at the
\* state of the client or of the Subscription again
SubToken(t, outcome) ==
    /\ Quiet
    /\ stask[t].pc = "token"
    /\ id < MaxId
    /\ LET s == stask[t].s
           ch == stask[t].ch
       IN  CASE outcome = "token" ->
                  Commit(subscribe_send([World EXCEPT !.sub[s].token = "t"], t, s, ch))
             [] is_unauthorized(outcome) ->
                  Commit([move_unsubscribed(World, s, Named("UNAUTHORIZED"))
                             EXCEPT !.stask[t] = IdleSTask])
             [] OTHER ->
                  Commit([Emit(World, Event("on_error", Named("SUBSCRIPTION_SUBSCRIBE_TOKEN"), ch))
                             EXCEPT !.stask[t].pc = "schedule_resubscribe"])

\* The task of asyncio.ensure_future(sub._schedule_resubscribe()) runs.
SubSchedule(t) ==
    /\ Quiet
    /\ stask[t].pc = "schedule_resubscribe"
    /\ Commit(schedule_resubscribe([World EXCEPT !.stask[t] = IdleSTask], stask[t].s))

SubResume(t) ==
    /\ Quiet
    /\ stask[t].pc = "wait"
    /\ cb_future[stask[t].id] # "pending"
    /\ Commit([ScopeExit(subscribe_resolved(World, stask[t].s,
                                            stask[t].id), stask[t].id)
                  EXCEPT !.stask[t] = IdleSTask])

\* A task made by _process_unsubscribe, or the resubscribe task it leads to, runs.
SubMove(t) ==
    /\ Quiet
    /\ LET w == [World EXCEPT !.stask[t] = IdleSTask]
           s == stask[t].s
       IN  \/ /\ stask[t].pc = "move_unsubscribed"
              /\ Commit(move_unsubscribed(w, s, Server(stask[t].code)))
           \/ /\ stask[t].pc = "move_subscribing"
              /\ Commit(IF sub[s].client \/ sub[s].state = "subscribing"
                        THEN move_subscribing(w, s, Server(stask[t].code), FALSE)
                        ELSE Mark(move_subscribing(w, s, Server(stask[t].code), TRUE),
                                  "AttributeError"))
           \/ /\ stask[t].pc = "resubscribe"
              /\ Commit(resubscribe(w, s))

\* Subscription._resubscribe, run by a resubscribe timer
resubscribe_timer(w, s) ==
    IF w.sub[s].state # "subscribing" THEN w
    ELSE IF ~w.sub[s].client THEN Mark(w, "AttributeError")
    ELSE resubscribe(w, s)

ResubscribeTimer(s) ==
    /\ Quiet
    /\ FreeSTask(World) # {}
    /\ sub[s].resubscribe_timer
    /\ Commit(resubscribe_timer([World EXCEPT !.sub[s].resubscribe_timer = FALSE], s))

\* A resubscribe timer that sub._resubscribe_timer no longer refers to fires
OrphanResubscribeTimer(s) ==
    /\ Quiet
    /\ FreeSTask(World) # {}
    /\ sub[s].resubscribe_orphans > 0
    /\ Commit(resubscribe_timer([World EXCEPT !.sub[s].resubscribe_orphans = @ - 1], s))

\* Client._unsubscribe, lines 656-672, called by _move_unsubscribed: up to the
\* await of the reply
unsubscribe_command(w) ==
    LET w1 == AllocId(w)
        k == w1.id
        w2 == register_future(w1, k)
    IN  IF w2.conn = 0 THEN Mark(w2, "CentrifugeError")
        ELSE LET w3 == IF ConnOpen(w2) THEN Send(w2, k, "unsubscribe", "")
                       ELSE disconnect(w2, Named("TRANSPORT_CLOSED"), TRUE).w
             IN  IF w3.cb_future[k] = "pending"
                 THEN [w3 EXCEPT !.uns.pc = "wait", !.uns.id = k]
                 ELSE w3

\* Subscription._move_unsubscribed(..., send_unsubscribe_command=True) of a
\* Subscription that is not UNSUBSCRIBED
move_unsubscribed_send(w, s, code) ==
    LET w1 == move_unsubscribed(w, s, code)
    IN  IF ~w.sub[s].client THEN Mark(w1, "AttributeError")
        ELSE IF w1.subs[w.sub[s].ch] = 0 THEN w1
        ELSE unsubscribe_command(w1)

\* Subscription.unsubscribe
unsubscribe(w, s) ==
    IF w.sub[s].state = "unsubscribed" THEN Mark(w, "unsubscribe_noop")
    ELSE move_unsubscribed_send(w, s, Named("UNSUBSCRIBE_CALLED"))

Unsubscribe(s) ==
    /\ Quiet
    /\ sub[s].created
    /\ uns.pc = "idle"
    /\ id < MaxId
    /\ Commit(unsubscribe(World, s))

\* An except branch of _unsubscribe that only returns
UnsResume_returns ==
    /\ Quiet
    /\ uns.pc = "wait"
    /\ cb_future[uns.id] # "pending"
    /\ Commit([World EXCEPT !.uns = IdleTask])

\* Client._unsubscribe, lines 671-676: the reply future is resolved
UnsResume ==
    /\ Quiet
    /\ uns.pc = "wait"
    /\ cb_future[uns.id] # "pending"
    /\ IF cb_future[uns.id] = "timeout"
       THEN LET d == disconnect(World,
                                Named("UNSUBSCRIBE_ERROR"), TRUE)
            IN  IF d.suspended
                THEN Commit([d.w EXCEPT !.uns.pc = "disc"])
                ELSE Commit([d.w EXCEPT !.uns = IdleTask])
       ELSE Commit([World EXCEPT !.uns = IdleTask])

UnsDisc ==
    /\ Quiet
    /\ uns.pc = "disc"
    /\ Commit([disconnect_tail(World, Named("UNSUBSCRIBE_ERROR"), TRUE)
                  EXCEPT !.uns = IdleTask])

\* ------------------------------------------------------------------ _sub_refresh
\* Client._sub_refresh, lines 501-509: the end of the branch of a provider that
\* failed with an exception other than UnauthorizedError
sub_refresh_failed(w, s) ==
    LET w1 == Emit(w, Event("on_error", Named("SUBSCRIPTION_SUBSCRIBE_TOKEN"), w.sub[s].ch))
    IN  [w1 EXCEPT !.stask[LowestSTask(w)] =
                       [IdleSTask EXCEPT !.pc = "schedule_resubscribe",
                                         !.ch = w.sub[s].ch, !.s = s]]

\* The refresh timer of Subscription s fires: Subscription._refresh, and
\* Client._sub_refresh up to the await of the token provider of the Subscription
\* registered for the channel. Awaiting a provider that is None raises TypeError,
\* which the except branch takes.
SubRefreshTimer(s) ==
    /\ Quiet
    /\ sub[s].refresh_timer
    /\ srf.pc = "idle"
    /\ FreeSTask(World) # {}
    /\ LET w == [World EXCEPT !.sub[s].refresh_timer = FALSE]
           ch == sub[s].ch
           u == subs[ch]
       IN  IF sub[s].state # "subscribed" THEN Commit(w)
           ELSE IF ~sub[s].client THEN Commit(Mark(w, "AttributeError"))
           ELSE IF u = 0 THEN Commit(w)
           ELSE IF ~sub[u].get_token THEN Commit(sub_refresh_failed(w, u))
           ELSE Commit([w EXCEPT !.srf = [IdleSTask EXCEPT !.pc = "token", !.s = u,
                                                            !.ch = ch]])

\* Client._sub_refresh, lines 489-521: the token provider returns a token, raises
\* UnauthorizedError or raises another exception
SubRefreshToken(outcome) ==
    /\ Quiet
    /\ srf.pc = "token"
    /\ id < MaxId
    /\ LET s == srf.s
           w == [World EXCEPT !.srf = IdleSTask]
       IN  CASE outcome = "token" ->
                  LET w1 == AllocId(w)
                      k == w1.id
                      w2 == register_future([w1 EXCEPT !.sub[s].token = "t"], k)
                      w3 == IF ConnOpen(w2) THEN SendWith(w2, k, "sub_refresh", srf.ch, "t")
                            ELSE disconnect(w2, Named("TRANSPORT_CLOSED"), TRUE).w
                  IN  Commit([w3 EXCEPT !.srf = [srf EXCEPT !.pc = "wait", !.id = k]])
             [] is_unauthorized(outcome) ->
                  /\ uns.pc = "idle"
                  /\ IF sub[s].state = "unsubscribed" THEN Commit(w)
                     ELSE Commit(move_unsubscribed_send(w, s, Named("UNAUTHORIZED")))
             [] OTHER ->
                  /\ FreeSTask(World) # {}
                  /\ Commit(sub_refresh_failed(w, s))

\* Client._sub_refresh, lines 523-552: the reply future is resolved
SubRefreshResume ==
    /\ Quiet
    /\ srf.pc = "wait"
    /\ cb_future[srf.id] # "pending"
    /\ LET k == srf.id
           s == srf.s
           w == [World EXCEPT !.srf = IdleSTask]
       IN  IF cb_future[k] # "reply" \/ replied[k] # "ok"
           THEN Commit(Emit(w, Event("on_error", Named("SUBSCRIPTION_REFRESH_TOKEN"),
                                     srf.ch)))
           ELSE Commit([w EXCEPT !.sub[s].refresh_timer = IF ttl[k] > 0 THEN TRUE ELSE @])

\* ------------------------------------------------------------------ publish()
\* publish() that handles a failed command as _unsubscribe handles a timeout
publish_result_disconnects(w, k) ==
    IF w.cb_future[k] = "reply" /\ w.replied[k] = "ok" THEN Mark(w, "PublishResult")
    ELSE disconnect(w, Named("TRANSPORT_CLOSED"), TRUE).w

\* Client.publish, lines 807-809: what the call returns or raises once the reply
\* future of its command k is resolved
publish_result(w, k) ==
    CASE w.cb_future[k] = "timeout" -> Mark(w, "OperationTimeoutError")
      [] w.cb_future[k] = "disconnected" -> Mark(w, "ClientDisconnectedError")
      [] OTHER -> IF w.replied[k] = "ok" THEN Mark(w, "PublishResult")
                  ELSE Mark(w, "ReplyError")

\* Client.publish, lines 797-807, once ready() has returned: up to the await of
\* the reply
publish(w) ==
    LET w1 == AllocId(w)
        k == w1.id
        w2 == register_future(w1, k)
        w3 == IF ConnOpen(w2) THEN Send(w2, k, "publish", "")
              ELSE disconnect(w2, Named("TRANSPORT_CLOSED"), TRUE).w
    IN  IF w3.cb_future[k] = "pending"
        THEN [w3 EXCEPT !.uop.pc = "wait", !.uop.id = k]
        ELSE publish_result(w3, k)

Publish ==
    /\ Quiet
    /\ uop.pc = "idle"
    /\ connected_future = "ok"
    /\ id < MaxId
    /\ Commit(publish(World))

\* Client.publish, lines 807-809: the reply future is resolved
PublishResume ==
    /\ Quiet
    /\ uop.pc = "wait"
    /\ cb_future[uop.id] # "pending"
    /\ Commit([publish_result(World, uop.id) EXCEPT !.uop = IdleTask])

\* ------------------------------------------------------------------ ready()
\* utils._wait_for_future on the connected future, as the specification describes
\* it (the function is not part of client.py): it returns at once when the future
\* is resolved, and waits for it otherwise.
wait_for_future(w) ==
    IF w.connected_future = "pending"
    THEN [w EXCEPT !.rdy = [pc |-> "wait", res |-> ""]]
    ELSE [w EXCEPT !.rdy = [pc |-> "done", res |-> w.connected_future]]

\* Client.ready
Ready ==
    /\ Quiet
    /\ rdy.pc # "wait"
    /\ Commit(wait_for_future(World))

\* Client.ready: the timeout of the wait passes
ReadyTimeout ==
    /\ Quiet
    /\ rdy.pc = "wait"
    /\ Commit([World EXCEPT !.rdy = [pc |-> "done", res |-> "timeout"]])

\* ------------------------------------------------------------------ specifications
\* The tasks of the client: each disjunct resumes a task that waits for something
\* the program itself provides.
Internal ==
    \/ \E p \in Procs : ProcReply(p)
    \/ \E p \in Procs : ListenExit(p)
    \/ \E p \in Procs : ProcessWake(p)
    \/ \E p \in Procs : ProcessItem(p)
    \/ \E p \in Procs : ProcessBarrier(p)
    \/ ScheduleReconnectTask

\* The ends of the close handshakes that a task waits for.
Closed ==
    \/ \E p \in Procs : ProcClosed(p)
    \/ \E p \in Procs : ProcDisc(p)
    \/ \E p \in Procs : ProcessDisc(p)
    \/ NoPingDisc
    \/ DisconnectDone

\* The timers of the client.
Timers ==
    \/ ReconnectTimer
    \/ OrphanReconnectTimer
    \/ \E k \in Ids : CommandTimeout(k)
    \/ PingTimeout

\* The tasks of the subscriptions.
SubInternal ==
    \/ \E t \in STasks : SubStart(t)
    \/ \E t \in STasks : SubResume(t)
    \/ \E t \in STasks : SubMove(t)

\* The server accepts the publish commands.
PublishAccepted == \A k \in Ids : sent[k].kind = "publish" => replied'[k] \in {"no", "ok"}

\* A client that opens one transport, with every user call on the client, every
\* server frame, every close code and every timer, and publish() as the command of
\* the user, which the server accepts.
Next ==
    \/ Connect
    \/ Disconnect
    \/ Publish
    \/ PublishResume
    \/ \E p \in Procs : OpenFail(p)
    \/ \E p \in Procs : OpenOk(p)
    \/ \E h \in Conns : ServerSend(h) /\ PublishAccepted
    \/ \E h \in Conns : ServerClose(h)
    \/ Internal
    \/ Closed
    \/ Timers

Spec == Init /\ [][Next]_vars

\* The same client with ready() calls in place of publish().
NextReady ==
    \/ Connect
    \/ Disconnect
    \/ Ready
    \/ ReadyTimeout
    \/ \E p \in Procs : OpenFail(p)
    \/ \E p \in Procs : OpenOk(p)
    \/ \E h \in Conns : ServerSend(h)
    \/ \E h \in Conns : ServerClose(h)
    \/ Internal
    \/ Closed
    \/ Timers

SpecReady == Init /\ [][NextReady]_vars

\* The server accepts the connect command.
ConnectAccepted == \A k \in Ids : sent[k].kind = "connect" => replied'[k] \in {"no", "ok"}

\* A client whose connection the server accepts and keeps, with every user call on
\* subscriptions, every reply to a subscribe command, publications, unsubscribe
\* pushes and the resubscribe timers.
NextSub ==
    \/ Connect
    \/ \E ch \in Chans : NewSubscription(ch)
    \/ \E s \in Subs : RemoveSubscription(s)
    \/ \E s \in Subs : Subscribe(s)
    \/ \E s \in Subs : Unsubscribe(s)
    \/ UnsResume
    \/ \E p \in Procs : OpenOk(p)
    \/ \E h \in Conns : ServerSends(h, {"reply", "pub", "unsubscribe"}) /\ ConnectAccepted
    \/ \E p \in Procs : ProcReply(p)
    \/ \E p \in Procs : ProcessWake(p)
    \/ \E p \in Procs : ProcessItem(p)
    \/ \E p \in Procs : ProcessBarrier(p)
    \/ SubInternal
    \/ \E s \in Subs : ResubscribeTimer(s)

SpecSub == Init /\ [][NextSub]_vars
\* The first session of a client that the user restarts runs on the transport Old,
\* which the server accepts and keeps until the user calls disconnect().
FirstSession == tstate[Old] # "closed"

\* A client that the user has connected, disconnected and connects again: after
\* the first session, a session with one subscription, server disconnect pushes
\* and a transport that may drop.
NextRestart ==
    \/ FirstSession /\ state = "disconnected" /\ Connect
    \/ FirstSession /\ \E p \in Procs : OpenOn(p, Old)
    \/ ServerSends(Old, {"reply"}) /\ ConnectAccepted
    \/ FirstSession /\ state = "connected" /\ Disconnect
    \/ DisconnectDone
    \/ ~FirstSession /\ Connect
    \/ ~FirstSession /\ \E p \in Procs : OpenOk(p)
    \/ ~FirstSession /\ \E ch \in Chans : NewSubscription(ch)
    \/ ~FirstSession /\ \E s \in Subs : Subscribe(s)
    \/ \E h \in Conns \ {Old} : ServerSends(h, {"reply", "disconnect"}) /\ ConnectAccepted
    \/ \E h \in Conns \ {Old} : ServerCloses(h, {0})
    \/ Internal
    \/ \E p \in Procs : ListenDisc(p)
    \/ \E p \in Procs : ProcessDisc(p)
    \/ \E t \in STasks : SubStart(t)
    \/ \E t \in STasks : SubResume(t)

SpecRestart == Init /\ [][NextRestart]_vars

\* A client whose connection the server accepts and keeps, with one subscription
\* and publish() calls: the server answers the commands with a reply or an error,
\* and the timers of the publish commands may fire.
NextOps ==
    \/ Connect
    \/ \E p \in Procs : OpenOk(p)
    \/ \E ch \in Chans : NewSubscription(ch)
    \/ \E s \in Subs : Subscribe(s)
    \/ Publish
    \/ PublishResume
    \/ \E h \in Conns : ServerSends(h, {"reply"}) /\ ConnectAccepted
    \/ \E k \in Ids : sent[k].kind = "publish" /\ CommandTimeout(k)
    \/ \E p \in Procs : ProcReply(p)
    \/ \E p \in Procs : ProcessWake(p)
    \/ \E p \in Procs : ProcessItem(p)
    \/ \E p \in Procs : ProcessBarrier(p)
    \/ \E t \in STasks : SubStart(t)
    \/ \E t \in STasks : SubResume(t)

SpecOps == Init /\ [][NextOps]_vars

\* A client whose user calls connect() and disconnect() at any time, with two
\* transports that websockets.connect may open and a server that sends nothing
\* and may drop a transport.
NextTwo ==
    \/ Connect
    \/ Disconnect
    \/ DisconnectDone
    \/ \E p \in Procs : OpenOn(p, Old)
    \/ \E p \in Procs : OpenOk(p)
    \/ \E p \in Procs : ProcReply(p)
    \/ \E p \in Procs : ListenExit(p)
    \/ \E p \in Procs : ListenDisc(p)
    \/ \E h \in Conns : ServerCloses(h, {0})
    \/ ScheduleReconnectTask
    \/ ReconnectTimer
    \/ OrphanReconnectTimer

SpecTwo == Init /\ [][NextTwo]_vars

\* A client that connects once and subscribes, and a server that numbers the
\* publications of the channel and sends some of them in its subscribe replies.
NextPub ==
    \/ Connect
    \/ \E p \in Procs : OpenOk(p)
    \/ \E p \in Procs : ProcReply(p)
    \/ \E ch \in Chans : NewSubscription(ch)
    \/ \E s \in Subs : Subscribe(s)
    \/ \E h \in Conns : ServerSends(h, {"reply"}) /\ ConnectAccepted
    \/ \E h \in Conns : ServerPublishes(h)
    \/ \E p \in Procs : ProcessWake(p)
    \/ \E p \in Procs : ProcessItem(p)
    \/ \E p \in Procs : ProcessBarrier(p)
    \/ \E t \in STasks : SubStart(t)
    \/ \E t \in STasks : SubResume(t)

SpecPub == Init /\ [][NextPub]_vars

\* A client with a token provider and subscriptions with token providers: the
\* providers return a token or fail, the server answers with success, with a
\* success that expires, or with an error, the refresh timers fire, and the
\* server may end a session in which a subscription is due for a refresh.
ServerClosesExpiring(h) ==
    /\ \E s \in Subs : sub[s].refresh_timer
    /\ ServerCloses(h, {0})

NextToken ==
    \/ Connect
    \/ \E p \in Procs : OpenOk(p)
    \/ \E p \in Procs, o \in Outcomes : ProcToken(p, o)
    \/ \E p \in Procs : ProcReply(p)
    \/ \E p \in Procs : ProcClosed(p)
    \/ \E p \in Procs : ProcDisc(p)
    \/ \E p \in Procs : ListenExit(p)
    \/ ScheduleReconnectTask
    \/ ReconnectTimer
    \/ \E ch \in Chans : NewSubscriptionWith(ch, TRUE)
    \/ \E s \in Subs : Subscribe(s)
    \/ \E h \in Conns : ServerSends(h, {"reply"})
    \/ \E h \in Conns : ServerClosesExpiring(h)
    \/ \E p \in Procs : ProcessWake(p)
    \/ \E p \in Procs : ProcessItem(p)
    \/ \E p \in Procs : ProcessBarrier(p)
    \/ \E t \in STasks : SubStart(t)
    \/ \E t \in STasks, o \in Outcomes : SubToken(t, o)
    \/ \E t \in STasks : SubSchedule(t)
    \/ \E t \in STasks : SubResume(t)
    \/ \E s \in Subs : ResubscribeTimer(s)
    \/ RefreshTimer
    \/ \E o \in Outcomes : RefreshToken(o)
    \/ RefreshDisc
    \/ RefreshResume
    \/ \E s \in Subs : SubRefreshTimer(s)
    \/ \E o \in Outcomes : SubRefreshToken(o)
    \/ SubRefreshResume
    \/ UnsResume

SpecToken == InitToken /\ [][NextToken]_vars

\* A client with a token provider that the user has connected, disconnected and
\* connects again: the provider returns a token, and the server answers the
\* connect command of the second session with success or with any error. No
\* reconnect timer is ever armed in these runs, so none fires.
NextExpiry ==
    \/ FirstSession /\ state = "disconnected" /\ Connect
    \/ FirstSession /\ \E p \in Procs : OpenOn(p, Old)
    \/ \E p \in Procs : ProcToken(p, "token")
    \/ ServerSends(Old, {"reply"}) /\ ConnectAccepted
    \/ FirstSession /\ state = "connected" /\ Disconnect
    \/ DisconnectDone
    \/ ~FirstSession /\ Connect
    \/ ~FirstSession /\ \E p \in Procs : OpenOk(p)
    \/ \E h \in Conns \ {Old} : ServerSends(h, {"reply"})
    \/ \E p \in Procs : ProcReply(p)
    \/ \E p \in Procs : ProcClosed(p)
    \/ \E p \in Procs : ProcDisc(p)
    \/ \E p \in Procs : ListenExit(p)
    \/ \E p \in Procs : ListenDisc(p)
    \/ \E p \in Procs : ProcessWake(p)
    \/ \E p \in Procs : ProcessItem(p)
    \/ \E p \in Procs : ProcessBarrier(p)
    \/ ScheduleReconnectTask

SpecExpiry == InitToken /\ [][NextExpiry]_vars

\* A client that connects on one transport and reconnects on another: the server
\* answers the connect commands with success or with an error and sends
\* disconnect pushes, and the reconnect timer fires.
\* The server accepts every command it answers.
Accepted == \A k \in Ids : replied'[k] \in {"no", "ok"}

\* A client whose server accepts the connect and subscribe commands and keeps
\* the transport open; the user creates a Subscription and calls subscribe() and
\* connect() at any moment.
NextAccept ==
    \/ Connect
    \/ \E ch \in Chans : NewSubscription(ch)
    \/ \E s \in Subs : Subscribe(s)
    \/ \E p \in Procs : OpenOk(p)
    \/ \E h \in Conns : ServerSends(h, {"reply", "pub"}) /\ Accepted
    \/ \E p \in Procs : ProcReply(p)
    \/ \E p \in Procs : ProcessWake(p)
    \/ \E p \in Procs : ProcessItem(p)
    \/ \E p \in Procs : ProcessBarrier(p)
    \/ \E t \in STasks : SubStart(t)
    \/ \E t \in STasks : SubResume(t)

\* The client of NextAccept whose user may also call subscribe() between the
\* arrival of the connect reply and the resumption of _create_connection, so that
\* the _subscribe task of that call is still queued when _create_connection
\* starts one more for the same channel.
NextTwice ==
    \/ Connect
    \/ \E ch \in Chans : NewSubscription(ch)
    \/ \E s \in Subs : Subscribe(s)
    \/ \E p \in Procs : OpenOk(p)
    \/ \E h \in Conns : ServerSends(h, {"reply"}) /\ Accepted
    \/ \E p \in Procs : ProcReply(p)
    \/ \E p \in Procs : ProcReplyOver(p)
    \/ \E p \in Procs : ProcessWake(p)
    \/ \E p \in Procs : ProcessItem(p)
    \/ \E p \in Procs : ProcessBarrier(p)
    \/ \E t \in STasks : SubStart(t)
    \/ \E t \in STasks : SubResume(t)

SpecTwice == Init /\ [][NextTwice]_vars

\* The event loop runs every task that is ready (its ready queue is first in,
\* first out), websockets.connect returns, and the server answers the commands
\* it has received. A step of the model waits until no process loop is in the
\* middle of a frame and the queue has room, so it is enabled again and again
\* rather than without interruption, and what the ready queue guarantees it is
\* strong fairness. The calls of the user and the publications of the server are
\* under no fairness condition.
FairAccept ==
    /\ SF_vars(\E p \in Procs : OpenOk(p))
    /\ SF_vars(\E h \in Conns : ServerSends(h, {"reply"}) /\ Accepted)
    /\ SF_vars(\E p \in Procs : ProcReply(p))
    /\ SF_vars(\E p \in Procs : ProcessWake(p))
    /\ SF_vars(\E p \in Procs : ProcessItem(p))
    /\ SF_vars(\E p \in Procs : ProcessBarrier(p))
    /\ SF_vars(\E t \in STasks : SubStart(t))
    /\ SF_vars(\E t \in STasks : SubResume(t))

SpecAccept == Init /\ [][NextAccept]_vars /\ FairAccept

\* A client whose user calls connect(), disconnect() and publish() at any moment,
\* with a server that answers a command or leaves it unanswered and a transport
\* that may close; every registered command has a timeout timer.
NextPending ==
    \/ Connect
    \/ Disconnect
    \/ DisconnectDone
    \/ Publish
    \/ PublishResume
    \/ \E p \in Procs : OpenOk(p)
    \/ \E h \in Conns : ServerSends(h, {"reply"})
    \/ \E h \in Conns : ServerCloses(h, {0})
    \/ \E p \in Procs : ProcReply(p)
    \/ \E p \in Procs : ProcClosed(p)
    \/ \E p \in Procs : ProcDisc(p)
    \/ \E p \in Procs : ListenExit(p)
    \/ \E p \in Procs : ProcessWake(p)
    \/ \E p \in Procs : ProcessItem(p)
    \/ \E p \in Procs : ProcessBarrier(p)
    \/ ScheduleReconnectTask
    \/ ReconnectTimer
    \/ \E k \in Ids : CommandTimeout(k)

\* A timer of loop.call_later that is due fires, and a process loop that holds a
\* frame goes on with it. Nothing else is under a fairness condition: the server
\* need not answer and the other tasks need not run.
FairPending ==
    /\ \A k \in Ids : WF_vars(CommandTimeout(k))
    /\ WF_vars(\E p \in Procs : ProcessItem(p))

SpecPending == Init /\ [][NextPending]_vars /\ FairPending

\* A CONNECTED or connecting client whose user subscribes and unsubscribes, with
\* a server that accepts the commands it answers and may leave an unsubscribe
\* command unanswered until its timer fires.
NextUnsub ==
    \/ Connect
    \/ \E p \in Procs : OpenOk(p)
    \/ \E ch \in Chans : NewSubscription(ch)
    \/ \E s \in Subs : Subscribe(s)
    \/ \E s \in Subs : Unsubscribe(s)
    \/ \E h \in Conns : ServerSends(h, {"reply"}) /\ Accepted
    \/ \E k \in Ids : sent[k].kind = "unsubscribe" /\ CommandTimeout(k)
    \/ \E p \in Procs : ProcReply(p)
    \/ \E p \in Procs : ListenExit(p)
    \/ \E p \in Procs : ProcessWake(p)
    \/ \E p \in Procs : ProcessItem(p)
    \/ \E p \in Procs : ProcessBarrier(p)
    \/ \E t \in STasks : SubStart(t)
    \/ \E t \in STasks : SubResume(t)
    \/ UnsResume
    \/ UnsDisc
    \/ ScheduleReconnectTask

SpecUnsub == Init /\ [][NextUnsub]_vars

NextLoop ==
    \/ Connect
    \/ \E p \in Procs : OpenOn(p, Old)
    \/ \E p \in Procs : OpenOk(p)
    \/ \E h \in Conns : ServerSends(h, {"reply", "disconnect"})
    \/ \E p \in Procs : ProcReply(p)
    \/ \E p \in Procs : ProcClosed(p)
    \/ \E p \in Procs : ProcDisc(p)
    \/ \E p \in Procs : ListenExit(p)
    \/ \E p \in Procs : ListenDisc(p)
    \/ \E p \in Procs : ProcessWake(p)
    \/ \E p \in Procs : ProcessItem(p)
    \/ \E p \in Procs : ProcessBarrier(p)
    \/ \E p \in Procs : ProcessDisc(p)
    \/ ScheduleReconnectTask
    \/ ReconnectTimer

SpecLoop == Init /\ [][NextLoop]_vars

\* ------------------------------------------------------------------ properties
\* The trace of the step that led to the current state has a line named e.
Traced(e) == \E i \in 1..Len(emitted) : emitted[i].e = e

\* A process loop is about to hand the reply of command k to _future_success.
Dispatching(k) ==
    \E p \in Procs : /\ prc[p].pc = "run"
                      /\ prc[p].rest # <<>>
                      /\ Head(prc[p].rest).t = "reply"
                      /\ Head(prc[p].rest).id = k

\* C1: the reply future of every registered command is resolved at most once; a
\* pending future gets a reply only from a process loop that dispatches the reply
\* with its id, a timeout error only from its own timer, and a disconnect error
\* only in a step that runs _disconnect; a resolved future never changes, so a
\* later attempt is a no-op.
Thm_C1 ==
    [][\A k \in Ids :
         /\ resolutions'[k] <= 1
         /\ cb_future[k] \notin {"none", "pending"} => cb_future'[k] = cb_future[k]
         /\ cb_future[k] = "pending" /\ cb_future'[k] = "reply" => Dispatching(k)
         /\ cb_future[k] = "pending" /\ cb_future'[k] = "timeout" =>
                k \in cb_timeout /\ k \notin cb_timeout'
         /\ cb_future[k] = "pending" /\ cb_future'[k] = "disconnected" =>
                Traced("_disconnect")']_vars

\* A reply was dispatched for a command that its timer had already failed.
Wit_C1 ==
    \E k \in Ids : /\ cb_future[k] = "timeout"
                    /\ dispatched[k] # 0
                    /\ resolutions[k] = 1

\* C6: every id _next_command_id returned is positive and greater than every id
\* it returned before.
Thm_C6 ==
    \A i \in 1..Len(issued) :
        /\ issued[i] > 0
        /\ \A j \in 1..(i - 1) : issued[j] < issued[i]

\* Ids were allocated for a connect command and for two user commands.
Wit_C6 == Len(issued) = MaxId /\ \E k \in Ids : sent[k].kind = "publish"

\* C9: a step that runs _disconnect while the state is not DISCONNECTED fails
\* every command that was pending with the disconnect error and leaves the
\* registry empty.
Thm_C9 ==
    [][state # "disconnected" /\ Traced("_disconnect")' =>
         /\ futures' = {}
         /\ \A k \in futures : cb_future'[k] = "disconnected"]_vars

\* A disconnect has just failed a pending command.
Wit_C9 ==
    /\ Traced("_disconnect")
    /\ futures = {}
    /\ \E k \in Ids : cb_future[k] = "disconnected" /\ sent[k].kind = "publish"

\* Everything but the trace of the step.
fields ==
    <<state, need_reconnect, id, conn, futures, cb_future, cb_done, cb_timeout,
      connected_future, messages, getters, reconnect_attempts, reconnect_timer,
      reconnect_orphans, ping_timer, sched, subs, sub, tstate, tcode, sent,
      replied, srv, proc, lis, prc, stask, udisc, noping, uns, uop, rdy,
      issued, dispatched, resolutions, publications, offset, delivered,
      token, get_token, refresh_timer, sent_token, ttl, rfr, srf>>

\* No handler ran in the step.
NoHandler == \A i \in 1..Len(emitted) : emitted[i].e \in {"connect_noop", "disconnect_noop"}

\* C10: connect() called while CONNECTING or CONNECTED, and disconnect() called
\* while DISCONNECTED, change no field of the client, of a subscription or of a
\* task, call no handler and start no connection procedure.
Thm_C10 ==
    [][/\ state \in {"connecting", "connected"} /\ Connect =>
            UNCHANGED fields /\ NoHandler'
       /\ state = "disconnected" /\ Disconnect =>
            UNCHANGED fields /\ NoHandler']_vars

\* connect() has just returned at once on a CONNECTED client.
Wit_C10 == state = "connected" /\ emitted = <<Event("connect_noop", NoCode, "")>>

\* C2: the registry holds at most one Subscription per channel, the one that
\* carries the channel's name, and new_subscription(c) called while a
\* Subscription is registered for c raises DuplicateSubscriptionError and leaves
\* the registry and every Subscription as they were.
Thm_C2 ==
    [][/\ \A ch \in Chans :
            /\ Cardinality({s \in Subs : subs'[ch] = s}) <= 1
            /\ subs'[ch] # 0 => sub'[subs'[ch]].created /\ sub'[subs'[ch]].ch = ch
       /\ \A ch \in Chans :
            subs[ch] # 0 /\ NewSubscription(ch) =>
                /\ UNCHANGED <<subs, sub>>
                /\ Traced("DuplicateSubscriptionError")']_vars

\* new_subscription has just raised DuplicateSubscriptionError.
Wit_C2 ==
    /\ emitted = <<Event("DuplicateSubscriptionError", NoCode, "")>>
    /\ \E ch \in Chans : subs[ch] # 0

Thm_C4 ==
    \A k \in Ids :
        cb_future[k] = "reply" /\ cb_done[k] = "pending" =>
            /\ dispatched[k] # 0
            /\ prc[dispatched[k]].pc = "barrier"
            /\ prc[dispatched[k]].id = k

\* A loop waits at the barrier of a subscribe command with a publication of the
\* same frame still to dispatch.
Wit_C4 ==
    \E k \in Ids, p \in Procs :
        /\ sent[k].kind = "subscribe"
        /\ cb_future[k] = "reply" /\ cb_done[k] = "pending"
        /\ prc[p].pc = "barrier" /\ prc[p].id = k
        /\ prc[p].rest # <<>> /\ Head(prc[p].rest).t = "pub"

\* The reconnect rule of the specification for server codes.
Reconnectable(c) == (3500 <= c /\ c < 4000) \/ (4500 <= c /\ c < 5000)

\* The trace of the step has the line e with a code of the server.
TracedCode(e, c) == \E i \in 1..Len(emitted) : emitted[i] = Event(e, Server(c), "")

\* The _schedule_reconnect task that a disconnect has just created arms a
\* reconnect timer when it runs in the state the disconnect left.
ReconnectScheduled == sched > 0 /\ schedule_reconnect(World).reconnect_timer

\* C5: a transport drop while CONNECTED moves every registered SUBSCRIBED
\* subscription to SUBSCRIBING and leaves the client with a reconnect scheduled,
\* without which no subscription re-enters SUBSCRIBED unless the user calls
\* connect().
CE_C5 ==
    [][\A c \in CloseCodes :
         state = "connected" /\ ~ConnOpen(World) /\ c < 3000 /\ c # 1009
         /\ (\E ch \in Chans : subs[ch] # 0 /\ sub[subs[ch]].state = "subscribed")
         /\ TracedCode("connection closed", c)' =>
             /\ \A ch \in Chans :
                  subs[ch] # 0 /\ sub[subs[ch]].state = "subscribed" =>
                      sub'[subs[ch]].state = "subscribing"
             /\ state' = "connecting"
             /\ ReconnectScheduled']_vars

\* C7: a disconnect push with code c processed while CONNECTED leaves the client
\* CONNECTING if c is in [3500, 4000) or [4500, 5000) and DISCONNECTED with
\* need_reconnect false otherwise; when its _disconnect ends with the client
\* still CONNECTING, a reconnect is scheduled if c is in the ranges, and none is
\* otherwise.
CE_C7 ==
    [][/\ \A c \in DiscCodes :
            state = "connected" /\ TracedCode("disconnect push received", c)' =>
                IF Reconnectable(c) THEN state' = "connecting"
                ELSE state' = "disconnected" /\ ~need_reconnect'
       /\ \A p \in Procs :
            prc[p].pc = "disc" /\ ProcessDisc(p) =>
                IF Reconnectable(prc[p].code.n)
                THEN state' = "connecting" /\ ~ConnOpen(World)' => ReconnectScheduled'
                ELSE sched' = sched /\ ~reconnect_timer']_vars

\* C8: a receive loop that exits with close code c while the client is not
\* DISCONNECTED runs _disconnect with code c and reconnects if and only if c is in
\* [3500, 4000) or [4500, 5000) when c >= 3000, and runs it with
\* TRANSPORT_CLOSED and reconnects when c < 3000 is not 1009.
CE_C8 ==
    [][\A c \in CloseCodes :
         state # "disconnected" /\ TracedCode("connection closed", c)' =>
             IF c >= 3000
             THEN /\ TracedCode("_disconnect", c)'
                  /\ state' = IF Reconnectable(c) THEN "connecting" ELSE "disconnected"
             ELSE c # 1009 =>
                  /\ \E i \in 1..Len(emitted') :
                       emitted'[i] = Event("_disconnect", Named("TRANSPORT_CLOSED"), "")
                  /\ state' = "connecting"]_vars

\* C11: remove_subscription(sub) on a Subscription that is not UNSUBSCRIBED raises
\* an error and leaves the registry and every Subscription, the back-reference
\* included, as they were; on an UNSUBSCRIBED one it leaves sub out of the registry
\* with its back-reference cleared, and it raises nothing when sub was registered.
Thm_C11 ==
    [][\A s \in Subs :
         sub[s].created /\ RemoveSubscription(s) =>
             IF sub[s].state = "unsubscribed"
             THEN /\ ~sub'[s].client
                  /\ \A ch \in Chans : subs'[ch] # s
                  /\ subs[sub[s].ch] = s => emitted' = <<>>
             ELSE /\ UNCHANGED <<subs, sub>>
                  /\ Traced("CentrifugeError")']_vars

\* One Subscription has been removed, and remove_subscription has just raised for
\* another one, which is registered and SUBSCRIBED.
Wit_C11 ==
    /\ emitted = <<Event("CentrifugeError", NoCode, "")>>
    /\ \E s \in Subs : sub[s].created /\ ~sub[s].client /\ sub[s].state = "unsubscribed"
    /\ \E s \in Subs : subs[sub[s].ch] = s /\ sub[s].client /\ sub[s].state = "subscribed"

\* The fields that a failed user command must leave alone.
ClientAndSubs ==
    <<state, need_reconnect, conn, connected_future, subs, sub, reconnect_timer,
      reconnect_attempts, sched, ping_timer, tstate>>

\* C12: while publish() waits for the reply of its command k, the step in which the
\* timer of k fails it and the step in which an error reply for k is dispatched
\* change nothing of the client or of a subscription and fail no other command;
\* the step in which publish() then returns raises the timeout or the reply error
\* to the caller and changes nothing of the client, of a subscription or of a
\* command.
Thm_C12 ==
    [][\A k \in Ids :
         uop.pc = "wait" /\ uop.id = k =>
             /\ cb_future[k] = "pending" /\ cb_future'[k] = "timeout" =>
                    /\ UNCHANGED ClientAndSubs
                    /\ futures' = futures \ {k}
                    /\ \A j \in Ids \ {k} : cb_future'[j] = cb_future[j]
             /\ cb_future[k] = "pending" /\ cb_future'[k] = "reply" /\ replied[k] # "ok" =>
                    /\ UNCHANGED ClientAndSubs
                    /\ futures' = futures \ {k}
                    /\ \A j \in Ids \ {k} : cb_future'[j] = cb_future[j]
             /\ cb_future[k] = "timeout" /\ PublishResume =>
                    /\ Traced("OperationTimeoutError")'
                    /\ UNCHANGED <<ClientAndSubs, futures, cb_future>>
             /\ cb_future[k] = "reply" /\ replied[k] # "ok" /\ PublishResume =>
                    /\ Traced("ReplyError")'
                    /\ UNCHANGED <<ClientAndSubs, futures, cb_future>>]_vars

\* publish() has just raised the error of a reply while a subscribe command of a
\* CONNECTED client was pending.
Wit_C12 ==
    /\ emitted = <<Event("ReplyError", NoCode, "")>>
    /\ state = "connected"
    /\ \E j \in futures : sent[j].kind = "subscribe" /\ cb_future[j] = "pending"

\* C19: whenever the client is not CONNECTED its connected future is unresolved;
\* so every step that leaves CONNECTED ends with an unresolved connected future.
CE_C19 == state # "connected" => connected_future = "pending"

\* C20: whenever a Subscription of the client is SUBSCRIBING its subscribed future
\* is unresolved, and whenever it is SUBSCRIBED, as after unsubscribe(),
\* subscribe() and a successful reply, its subscribed future is resolved with
\* success.
CE_C20 ==
    \A s \in Subs :
        sub[s].client =>
        /\ sub[s].state = "subscribing" => sub[s].subscribed_future = "pending"
        /\ sub[s].state = "subscribed" => sub[s].subscribed_future = "ok"

\* C17: at most one timer of each category is pending: no armed reconnect timer
\* and no armed resubscribe timer is left behind when another one is armed (the
\* ping timer is cancelled by _restart_ping_wait before it is armed again, so the
\* model has one at most).
CE_C17 ==
    /\ reconnect_orphans = 0
    /\ \A s \in Subs : sub[s].resubscribe_orphans = 0

\* The connection procedures that are running, and the transports that are open.
Running == {p \in Procs : proc[p].pc # "idle"}
OpenTransports == {h \in Conns : tstate[h] = "open"}

\* C18: at most one connection procedure runs at a time, and at most one
\* transport is open at a time.
CE_C18 == Cardinality(Running) <= 1 /\ Cardinality(OpenTransports) <= 1

\* The _subscribe and resubscribe tasks of channel ch.
TasksOf(ch) ==
    {t \in STasks : /\ stask[t].ch = ch
                     /\ stask[t].pc \in {"resubscribe", "start", "token", "wait"}}

\* The trace of the step has the handler call e of channel ch with server code c.
TracedSub(e, c, ch) == \E i \in 1..Len(emitted) : emitted[i] = Event(e, Server(c), ch)

RECURSIVE OffsetsOf(_)
OffsetsOf(tr) ==
    IF tr = <<>> THEN <<>>
    ELSE IF Head(tr).e = "on_publication" /\ Head(tr).code.n > 0
    THEN <<Head(tr).code.n>> \o OffsetsOf(Tail(tr))
    ELSE OffsetsOf(Tail(tr))

Unauthorized(ch) ==
    \E i \in 1..Len(emitted) :
        emitted[i] = Event("on_unsubscribed", Named("UNAUTHORIZED"), ch)

CE_C14 ==
    [][\A p \in Procs :
        /\ (/\ proc[p].pc = "wait" /\ state = "connecting"
            /\ cb_future[proc[p].id] = "reply"
            /\ replied[proc[p].id] \in TokenExpired
            /\ ProcReply(p)) =>
               /\ token' = ""
               /\ ~ConnOpen(World)'
               /\ state' = "connecting"
               /\ proc'[p].pc = "close" \/ reconnect_timer'
        /\ (/\ proc[p].pc = "close" /\ proc[p].err = "CONNECT_REPLY_ERROR"
            /\ state = "connecting"
            /\ ProcClosed(p)) =>
               reconnect_timer'
        /\ (/\ proc[p].pc = "open" /\ proc'[p].pc # "open"
            /\ token = "" /\ get_token) =>
               proc'[p].pc = "token" /\ id' = id]_vars

\* C21: when a process loop has handled the unsubscribe push of a frame
\* [unsubscribe push for ch with code c, publication push for ch] of a SUBSCRIBED
\* subscription and turns to the publication, the effect of the unsubscribe push
\* is complete: on_unsubscribed(c) has run and the subscription is UNSUBSCRIBED
\* when c < 2500, on_subscribing(c) has run and it is SUBSCRIBING otherwise.
CE_C21 ==
    [][\A p \in Procs, ch \in Chans, c \in UnsubCodes :
        (/\ prc[p].pc = "run"
         /\ prc[p].rest = <<UnsubItem(ch, c), PubItem(ch, 0)>>
         /\ subs[ch] # 0 /\ sub[subs[ch]].state = "subscribed"
         /\ ProcessItem(p)) =>
            IF c < 2500
            THEN TracedSub("on_unsubscribed", c, ch)' /\ sub'[subs[ch]].state = "unsubscribed"
            ELSE TracedSub("on_subscribing", c, ch)' /\ sub'[subs[ch]].state = "subscribing"]_vars

\* The process loops that read the current queue of the client.
Consumers == {p \in Procs : prc[p].pc \notin {"idle", "orphan"}}

\* C22: at most one process loop reads the queue of the client at any time.
CE_C22 == Cardinality(Consumers) <= 1

\* C23: when the token provider of a SUBSCRIBED subscription has failed in
\* _sub_refresh with an error other than UnauthorizedError, the step in which the
\* _schedule_resubscribe task it started runs, with the subscription still
\* SUBSCRIBED, arms the resubscribe timer or starts a _subscribe task for it.
CE_C23 ==
    [][\A t \in STasks, s \in Subs :
        (/\ stask[t].pc = "schedule_resubscribe" /\ stask[t].s = s
         /\ sub[s].state = "subscribed"
         /\ SubSchedule(t)) =>
            \/ sub'[s].resubscribe_timer
            \/ Cardinality(TasksOf(sub[s].ch)') > 0]_vars

\* The trace of the step has the handler call e of channel ch with the named code.
TracedNamed(e, tag, ch) == \E i \in 1..Len(emitted) : emitted[i] = Event(e, Named(tag), ch)

\* C24: the step in which _subscribe finds an error in the reply to its subscribe
\* command, with the subscription SUBSCRIBING: if the error is temporary or its
\* code means token expiry, the subscription stays SUBSCRIBING, on_error
\* (SUBSCRIBE_REPLY_ERROR) is called, its resubscribe timer is armed, and its
\* token is cleared exactly when the code means token expiry; otherwise the
\* subscription is UNSUBSCRIBED, on_unsubscribed is called with the code of the
\* reply, no resubscribe timer is armed and no task is started for its channel.
\* An UNSUBSCRIBED subscription changes its state, arms its resubscribe timer
\* and gets one more task for its channel only by a subscribe() call.
Thm_C24 ==
    [][/\ \A t \in STasks, s \in Subs, k \in Ids, ch \in Chans :
            (/\ stask[t].pc = "wait" /\ stask[t].s = s /\ stask[t].id = k
             /\ sub[s].ch = ch
             /\ cb_future[k] = "reply" /\ replied[k] # "ok"
             /\ sub[s].state = "subscribing"
             /\ SubResume(t)) =>
                IF replied[k] \in TokenExpired \cup Temporary
                THEN /\ sub'[s].state = "subscribing"
                     /\ TracedNamed("on_error", "SUBSCRIBE_REPLY_ERROR", ch)'
                     /\ sub'[s].resubscribe_timer
                     /\ sub'[s].token = IF replied[k] \in TokenExpired THEN ""
                                        ELSE sub[s].token
                ELSE /\ sub'[s].state = "unsubscribed"
                     /\ TracedNamed("on_unsubscribed", "REPLY_ERROR", ch)'
                     /\ ~sub'[s].resubscribe_timer
                     /\ TasksOf(ch)' \subseteq TasksOf(ch) \ {t}
       /\ \A s \in Subs, ch \in Chans :
            (/\ sub[s].ch = ch /\ subs[ch] = s /\ sub[s].state = "unsubscribed"
             /\ ~(\E u \in Subs : Subscribe(u))) =>
                /\ sub'[s].state = "unsubscribed"
                /\ ~sub'[s].resubscribe_timer
                /\ Cardinality(TasksOf(ch)') <= Cardinality(TasksOf(ch))]_vars

\* _subscribe has just found a token-expiry error in the reply to its subscribe
\* command: the subscription is SUBSCRIBING without a token and with its
\* resubscribe timer armed.
Wit_C24 ==
    \E s \in Subs, k \in Ids :
        /\ sent[k].kind = "subscribe" /\ sent[k].ch = sub[s].ch
        /\ replied[k] \in TokenExpired
        /\ TracedNamed("on_error", "SUBSCRIBE_REPLY_ERROR", sub[s].ch)
        /\ sub[s].state = "subscribing"
        /\ sub[s].token = ""
        /\ sub[s].resubscribe_timer

\* The tasks that the step starts to run _subscribe for channel ch.
Started(ch) == {t \in STasks : stask[t].pc = "idle" /\ stask'[t].pc = "start" /\ stask'[t].ch = ch}

\* The step sends a subscribe command.
SendsSubscribe == \E k \in Ids : sent[k].kind # "subscribe" /\ sent'[k].kind = "subscribe"

\* C25: the step in which _create_connection finds a connect reply without error
\* makes the client CONNECTED and starts one _subscribe task for each channel
\* whose registered subscription is SUBSCRIBING, and none for another channel; a
\* subscribe command is sent only by a _subscribe task that has found the client
\* CONNECTED (at once, or after the token provider it then awaited); and with a
\* server that accepts, a subscription that is SUBSCRIBING while the client is
\* CONNECTED (and a command id is left for its subscribe command) is SUBSCRIBED
\* at some later moment.
Thm_C25 ==
    /\ [][/\ \A p \in Procs, k \in Ids :
                (/\ proc[p].pc = "wait" /\ proc[p].id = k
                 /\ cb_future[k] = "reply" /\ replied[k] = "ok"
                 /\ state = "connecting"
                 /\ ProcReply(p)) =>
                    /\ state' = "connected"
                    /\ \A ch \in Chans :
                         Cardinality(Started(ch)) =
                             IF subs[ch] # 0 /\ sub[subs[ch]].state = "subscribing"
                             THEN 1 ELSE 0
          /\ SendsSubscribe =>
                \/ state = "connected" /\ \E t \in STasks : SubStart(t)
                \/ \E t \in STasks : stask[t].pc = "token"]_vars
    /\ \A s \in Subs :
         (sub[s].state = "subscribing" /\ state = "connected" /\ id < MaxId)
             ~> (sub[s].state = "subscribed")

\* subscribe() was called before connect(): the connect reply has just been
\* accepted, the client is CONNECTED and the _subscribe task of the SUBSCRIBING
\* subscription is ready to run.
Wit_C25 ==
    \E s \in Subs, t \in STasks :
        /\ state = "connected"
        /\ \E i \in 1..Len(emitted) : emitted[i].e = "on_connected"
        /\ sub[s].state = "subscribing" /\ subs[sub[s].ch] = s
        /\ stask[t].pc = "start" /\ stask[t].ch = sub[s].ch

\* C26: while the client is CONNECTED, the step that handles a ping of the server
\* leaves the ping timer armed; and when the ping timer fires, _no_ping leaves
\* the client CONNECTING, calls on_disconnected with NO_PING (after the closing
\* handshake of the transport, if there is one) and the _schedule_reconnect task
\* it starts arms a reconnect timer.
CE_C26 ==
    [][/\ \A p \in Procs :
            (/\ prc[p].pc = "run" /\ prc[p].rest # <<>> /\ Head(prc[p].rest) = PingItem
             /\ state = "connected"
             /\ ProcessItem(p)) => ping_timer'
       /\ (state = "connected" /\ PingTimeout) =>
            /\ state' = "connecting"
            /\ \/ noping'.pc = "disc"
               \/ /\ TracedNamed("on_disconnected", "NO_PING", "")'
                  /\ ReconnectScheduled'
       /\ (noping.pc = "disc" /\ state = "connecting" /\ NoPingDisc) =>
            /\ state' = "connecting"
            /\ TracedNamed("on_disconnected", "NO_PING", "")'
            /\ ~ConnOpen(World)' => ReconnectScheduled']_vars

\* C27: while the client is DISCONNECTED with _need_reconnect false, no reconnect
\* timer is pending, whether self._reconnect_timer refers to it or not, and no
\* step but a connect() call of the user changes the state of the client, arms
\* a reconnect timer or starts a connection procedure.
CE_C27 ==
    /\ [](state = "disconnected" /\ ~need_reconnect =>
             ~reconnect_timer /\ reconnect_orphans = 0)
    /\ [][(state = "disconnected" /\ ~need_reconnect /\ ~Connect) =>
             /\ state' = "disconnected"
             /\ ~reconnect_timer'
             /\ reconnect_orphans' <= reconnect_orphans
             /\ \A p \in Procs : proc[p].pc = "idle" => proc'[p].pc = "idle"]_vars

\* C28: every record of self._futures holds an unresolved future, and the step
\* that resolves the future of a command (with its reply, with a timeout error or
\* with a client-disconnected error) finds its record in self._futures and
\* removes it.
Thm_C28 ==
    /\ [](\A k \in futures : cb_future[k] = "pending")
    /\ [][\A k \in Ids :
             cb_future[k] = "pending" /\ cb_future'[k] # "pending" =>
                 /\ cb_future'[k] \in {"reply", "timeout", "disconnected"}
                 /\ k \in futures
                 /\ k \notin futures']_vars

\* Three commands were registered: one got its reply, one timed out and one was
\* failed by a disconnect; none of them is left in self._futures.
Wit_C28 ==
    /\ \E k \in Ids : cb_future[k] = "reply"
    /\ \E k \in Ids : cb_future[k] = "timeout"
    /\ \E k \in Ids : cb_future[k] = "disconnected"
    /\ futures = {}

\* C29: the step in which _create_connection finds an error in the connect reply,
\* with the client CONNECTING. An error that is neither temporary nor a token
\* expiry leaves the client DISCONNECTED, with no _schedule_reconnect task and no
\* reconnect timer, and on_disconnected is called with the code of the reply
\* (after the closing handshake of the transport, if there is one). A temporary
\* error leaves the client CONNECTING, and after the closing handshake on_error
\* (CONNECT_REPLY_ERROR) is called and a reconnect timer is armed.
CE_C29 ==
    [][/\ \A p \in Procs, k \in Ids :
            (/\ proc[p].pc = "wait" /\ proc[p].id = k
             /\ cb_future[k] = "reply" /\ state = "connecting"
             /\ ProcReply(p)) =>
                CASE replied[k] = "fatal" ->
                       /\ state' = "disconnected"
                       /\ sched' = sched /\ ~reconnect_timer'
                       /\ \/ proc'[p].pc = "disc"
                          \/ TracedNamed("on_disconnected", "REPLY_ERROR", "")'
                  [] replied[k] = "temp" ->
                       /\ state' = "connecting"
                       /\ \/ proc'[p].pc = "close"
                          \/ /\ TracedNamed("on_error", "CONNECT_REPLY_ERROR", "")'
                             /\ ~ConnOpen(World)' => reconnect_timer'
                  [] OTHER -> TRUE
       /\ \A p \in Procs :
            (proc[p].pc = "disc" /\ state = "disconnected" /\ ProcDisc(p)) =>
                /\ state' = "disconnected"
                /\ sched' = sched /\ ~reconnect_timer'
                /\ TracedNamed("on_disconnected", "REPLY_ERROR", "")'
       /\ \A p \in Procs :
            (/\ proc[p].pc = "close" /\ proc[p].err = "CONNECT_REPLY_ERROR"
             /\ state = "connecting"
             /\ ProcClosed(p)) =>
                /\ state' = "connecting"
                /\ TracedNamed("on_error", "CONNECT_REPLY_ERROR", "")'
                /\ ~ConnOpen(World)' => reconnect_timer']_vars

\* C30: a command that is in self._futures is at some later moment out of it,
\* with its future resolved by a reply, by a timeout error or by a
\* client-disconnected error.
Thm_C30 ==
    \A k \in Ids :
        (k \in futures) ~>
            (k \notin futures /\ cb_future[k] \in {"reply", "timeout", "disconnected"})

\* The timer of a publish command that the server left unanswered has fired:
\* the command is out of self._futures, failed with the timeout error.
Wit_C30 ==
    \E k \in Ids :
        /\ sent[k].kind = "publish" /\ replied[k] = "no"
        /\ cb_future[k] = "timeout"
        /\ k \notin futures

\* The states of the Subscriptions.
SubStates == [s \in Subs |-> sub[s].state]

CE_C32 == \A k \in Ids : cb_done[k] # "invalid"

\* C33: whenever the _schedule_reconnect task that a disconnect with
\* reconnect=True has started runs while the client is CONNECTING and its
\* transport is not open, it arms a reconnect timer, also for a client that the
\* user has disconnected and connected again.
CE_C33 ==
    [][(/\ sched > 0 /\ state = "connecting" /\ ~ConnOpen(World)
        /\ ScheduleReconnectTask) => reconnect_timer']_vars

\* No _create_connection and no _disconnect is in progress.
NoProcedure ==
    /\ \A p \in Procs : /\ proc[p].pc = "idle"
                         /\ lis[p].pc # "disc"
                         /\ prc[p].pc \notin {"run", "disc"}
    /\ udisc.pc = "idle" /\ noping.pc = "idle"
    /\ uns.pc # "disc" /\ rfr.pc # "disc"

\* C34: whenever the client is DISCONNECTED and neither a connection procedure
\* nor a disconnect is in progress, no transport is open.
CE_C34 ==
    state = "disconnected" /\ NoProcedure => \A h \in Conns : tstate[h] # "open"

\* C35: self._reconnect_attempts decreases only in a step that makes the client
\* CONNECTED or leaves it DISCONNECTED; while the client goes from one failed
\* connection attempt to the next the counter does not go back to zero.
CE_C35 ==
    [][reconnect_attempts' < reconnect_attempts =>
          \/ state # "connected" /\ state' = "connected"
          \/ state' = "disconnected"]_vars

\* C36: for every channel at most one subscribe command waits for its reply, and
\* a _subscribe task that resumes on its reply moves the subscription to
\* SUBSCRIBED only if its command is the last subscribe command issued for the
\* channel.
SubscribeIds(ch) == {k \in Ids : sent[k].kind = "subscribe" /\ sent[k].ch = ch}
CE_C36 ==
    /\ [](\A ch \in Chans : Cardinality(SubscribeIds(ch) \cap futures) <= 1)
    /\ [][\A t \in STasks, s \in Subs :
             (/\ stask[t].pc = "wait"
              /\ stask[t].s = s
              /\ SubResume(t)
              /\ sub[s].state # "subscribed"
              /\ sub'[s].state = "subscribed") =>
             \A k \in SubscribeIds(sub[s].ch) : k <= stask[t].id]_vars

====
